---- MODULE Spec2Model ----
(***************************************************************************)
(* Background execution engine of extension-redis: the prepare / start /   *)
(* status / stop life cycle of the attacks and checks, the registries of   *)
(* running executions, the worker goroutines and the cleanup at stop.      *)
(*                                                                         *)
(* The registries of the different actions are disjoint maps and the       *)
(* actions share nothing but the target, so a behaviour exercises the      *)
(* executions of one action (variable kind); all executions of that action *)
(* run concurrently against the same target.                               *)
(*                                                                         *)
(* Target operations succeed exactly when the target is reachable; a SET   *)
(* may additionally be refused by Redis (OOM).  CreateRedisClientFromURL   *)
(* does not dial: it fails exactly when the URL does not parse.            *)
(***************************************************************************)
EXTENDS Integers, FiniteSets, Sequences, TLC

\* ---------------------------------------------------------------- bounds
MaxTime == 1
MaxDuration == 1
MaxNumKeys == 1
MaxCycles == 1
MaxStops == 2
MaxConcurrency == 1
MaxRequests == 1
MaxFillKeys == 1
MaxPings == 2
MaxConnections == 1

\* two executions exhibit every interference between executions
Execs == {1, 2}
Callers == 1..MaxStops
Workers == 1..MaxConcurrency
NoEntry == 0

Kinds == {"bigkey", "penetration", "memfill", "maxmemory", "memcheck",
          "keydelete", "latency", "expiration", "clientpause",
          "connexhaust"}

\* the keys on the target a key-delete pattern may match, and what they hold:
\* nothing, a string, or a value of another type (here a hash)
DbKeys == {"cache:a", "cache:b"}
NoValue == [type |-> "none", val |-> ""]
DbValues == {NoValue, [type |-> "string", val |-> "v1"],
             [type |-> "string", val |-> "v2"], [type |-> "hash", val |-> "h"]}

\* the settings of the target the maxmemory attack reads and writes
ConfigParams == {"maxmemory", "maxmemory-policy"}

\* 1024 * 1024
MiB == 1048576

\* context.WithTimeout(ctx, 5*time.Second), in milliseconds
PingTimeoutMs == 5000

VARIABLES
  kind,            \* the action whose executions this behaviour runs
  active,          \* the executions the controller prepares
  stateOf,         \* the prepared state each call is handed (by its preparer)
  signalReceived,  \* main's ctx is done: SIGINT, SIGTERM or SIGUSR1 arrived
  request,         \* the body of the Prepare request of each execution
  ops,             \* outcomes of the worker's target operations so far, and the log
  backoff,         \* history: the last operation of the execution's worker (of
                   \* its first worker, if it has several) failed and the
                   \* worker has neither slept nor returned since
  now,             \* time.Now().Unix()
  reachable,       \* does the target answer commands
  phase,           \* life cycle of each execution
  urlValid,        \* state.RedisURL parses
  EndTime,         \* state.EndTime
  startRet,        \* what Start returned
  statusRet,       \* what the Status call of the last step returned
  spc,             \* position of each Stop call
  stopRet,         \* what each Stop call returned
  targetKeys,      \* keys present on the target
  \* big key attack
  NumKeys,         \* state.NumKeys
  KeySize,         \* state.KeySize, in bytes
  runningAttacks,  \* map ExecutionId -> *bigKeyAttackStats
  stats,           \* the bigKeyAttackStats object made by each Start
  wpc,             \* position of runBigKeyCycles
  wi,              \* its loop index i
  wCycle,          \* its local cycleCount
  wCreated,        \* its local createdKeys
  wClient,         \* does it hold an open client
  \* cache penetration attack
  Concurrency,              \* state.Concurrency
  cachePenetrationCancels,  \* map AttackKey -> cancel function
  cachePenetrationCounts,   \* map AttackKey -> *atomic.Int64
  ctxCancelled,             \* cancel() of the execution's workerCtx was called
  counter,                  \* the atomic.Int64 made by each Start
  ppc,                      \* position of each sendRequests worker
  keyCounter,               \* its local keyCounter
  pClient,                  \* does it hold an open client
  \* memory fill attack
  ValueSize,       \* state.ValueSize
  MaxMemory,       \* state.MaxMemory
  CreatedKeys,     \* state.CreatedKeys of the struct the worker appends to
  mfpc,            \* position of fillMemory
  mfKeyCounter,    \* its local keyCounter
  totalBytes,      \* its local totalBytes
  mfClient,        \* does it hold an open client
  \* maxmemory limit attack
  cfg,               \* the target's configuration (CONFIG GET / SET)
  NewMaxmemory,      \* state.NewMaxmemory
  NewPolicy,         \* state.NewPolicy
  OriginalMaxmemory, \* state.OriginalMaxmemory
  OriginalPolicy,    \* state.OriginalPolicy
  cfgBefore,         \* history: the target's configuration when Start was called
  configSets,        \* history: the parameters Start sent a CONFIG SET for
  startedDuring,     \* history: the executions in force when Start was called
  \* memory check
  MaxMemoryPercent,  \* state.MaxMemoryPercent
  MaxMemoryBytes,    \* state.MaxMemoryBytes
  ThresholdExceeded, \* state.ThresholdExceeded of the check's state
  MaxObserved,       \* state.MaxObserved / state.MaxObservedMs
  \* latency check
  MaxLatencyMs,      \* state.MaxLatencyMs
  TotalPings,        \* state.TotalPings
  FailedPings,       \* state.FailedPings
  hist,              \* history: what the Status calls of a check observed
  \* key delete attack
  db,                \* the target's keyspace: key -> value, NoValue if absent
  Pattern,           \* state.Pattern
  MaxKeys,           \* state.MaxKeys
  RestoreOnStop,     \* state.RestoreOnStop
  DeletedKeys,       \* state.DeletedKeys
  BackupData,        \* state.BackupData
  dbBefore,          \* history: the keyspace when Start was called
  \* cache expiration
  TTLSeconds,        \* state.TTLSeconds
  AffectedKeys,      \* state.AffectedKeys
  SkippedNonString,  \* state.SkippedNonString
  keyTTL,            \* the TTL of each key on the target, -1 without expiry
  \* client pause
  PauseMode,         \* state.PauseMode
  clientPause,       \* the target: the mode of CLIENT PAUSE and when it ends
  \* connection exhaustion
  NumConnections,    \* state.NumConnections
  ConnectionCount,   \* state.ConnectionCount
  activeConnections, \* the registry: attackKey -> is there an entry, its connections
  openConns,         \* the target: the attack's connections that are open
  kapc,              \* position of keepAlive
  stopClosed,        \* history: the connections the Stop calls closed
  \* the locks of the big key attack
  mutex,             \* who holds runningAttacksMu and stats.mu
  held,              \* how many of its locks a thread has acquired
  lpc                \* position of a thread between its lock operations

commonVars == <<kind, active, request, signalReceived, stateOf, ops, backoff,
                now, reachable, phase, urlValid, EndTime, startRet, spc,
                stopRet, targetKeys>>
bkVars == <<NumKeys, KeySize, runningAttacks, stats, wpc, wi, wCycle, wCreated,
           wClient>>
cpVars == <<Concurrency, cachePenetrationCancels, cachePenetrationCounts,
            ctxCancelled, counter, ppc, keyCounter, pClient>>
mfVars == <<ValueSize, MaxMemory, CreatedKeys, mfpc, mfKeyCounter,
            totalBytes, mfClient>>
mmVars == <<cfg, NewMaxmemory, NewPolicy, OriginalMaxmemory, OriginalPolicy,
            cfgBefore, configSets, startedDuring>>
mcVars == <<MaxMemoryPercent, MaxMemoryBytes, ThresholdExceeded, MaxObserved,
            MaxLatencyMs, TotalPings, FailedPings, hist>>
kdVars == <<db, Pattern, MaxKeys, RestoreOnStop, DeletedKeys, BackupData,
            dbBefore>>
ceVars == <<TTLSeconds, AffectedKeys, SkippedNonString, keyTTL>>
pzVars == <<PauseMode, clientPause>>
cxVars == <<NumConnections, ConnectionCount, activeConnections, openConns,
            kapc, stopClosed>>
lkVars == <<mutex, held, lpc>>
notLK == <<cpVars, mfVars, mmVars, mcVars, kdVars, ceVars, pzVars, cxVars>>
notBK == <<cpVars, mfVars, mmVars, mcVars, kdVars, ceVars, pzVars, cxVars,
           lkVars>>
notCP == <<bkVars, mfVars, mmVars, mcVars, kdVars, ceVars, pzVars, cxVars,
           lkVars>>
notMF == <<bkVars, cpVars, mmVars, mcVars, kdVars, ceVars, pzVars, cxVars,
           lkVars>>
notMM == <<bkVars, cpVars, mfVars, mcVars, kdVars, ceVars, pzVars, cxVars,
           lkVars>>
notMC == <<bkVars, cpVars, mfVars, mmVars, kdVars, ceVars, pzVars, cxVars,
           lkVars>>
notKD == <<bkVars, cpVars, mfVars, mmVars, mcVars, ceVars, pzVars, cxVars,
           lkVars>>
notCX == <<bkVars, cpVars, mfVars, mmVars, mcVars, kdVars, ceVars, pzVars,
           lkVars>>
vars == <<commonVars, statusRet, bkVars, cpVars, mfVars, mmVars, mcVars, kdVars,
          ceVars, pzVars, cxVars, lkVars>>

\* ---------------------------------------------------------------- helpers
NoRet == [level |-> "none", err |-> FALSE, cause |-> "none", pinged |-> "none"]

\* return nil, fmt.Errorf(...): Start failed at the named step
StartError(cause) == [NoRet EXCEPT !.err = TRUE, !.cause = cause]

\* the StartResult with an Info message and a nil error
StartOK == [NoRet EXCEPT !.level = "info"]

\* the step at which clients.CreateRedisClientFromURL / clients.PingRedis
\* make Start return
ProbeFailure(e) == IF ~urlValid[e] THEN "client" ELSE "ping"

NoStatus == [called |-> FALSE, err |-> FALSE, completed |-> FALSE,
             failed |-> FALSE, warn |-> FALSE, reach |-> FALSE,
             sampled |-> FALSE, violation |-> FALSE, synced |-> FALSE,
             cycles |-> 0, created |-> 0, deleted |-> 0, requests |-> 0]

NoStop == [level |-> "none", err |-> FALSE, signalled |-> FALSE,
           cycles |-> 0, created |-> 0, deleted |-> 0, requests |-> 0,
           reach |-> FALSE, cleanupFailed |-> FALSE,
           sets |-> {}, restoreErrors |-> {}]

EmptyStats == [closed |-> FALSE, closes |-> 0, cycleCount |-> 0,
               totalCreated |-> 0, totalDeleted |-> 0, lastError |-> FALSE]

\* history of the Status calls of a check: the classes of what they
\* observed, the number of violating samples (2 stands for two or more) and
\* the number of calls that found the deadline reached (likewise)
NoHistory == [seen |-> {}, violations |-> 0, completions |-> 0]
UpTo2(n) == IF n >= 2 THEN 2 ELSE n
Observe(h, class, completed) ==
  [seen |-> h.seen \cup {class},
   violations |-> UpTo2(h.violations + (IF class = "violating" THEN 1 ELSE 0)),
   completions |-> UpTo2(h.completions + (IF completed THEN 1 ELSE 0))]
SampleClass(violation) == IF violation THEN "violating" ELSE "ok"

\* every execution under the same identifier
ExecutionIdShared(e) == 1

\* executionId := uuid.New().String()[:8]: a nonce, fresh for every prepare
ExecutionId(e) == e

\* fmt.Sprintf("%scycle%d-key%d", state.KeyPrefix, cycleCount, i)
KeyName(e, c, i) == <<e, c, i>>

\* the keys matched by SCAN state.KeyPrefix+"*"
KeysWithPrefix(e, keys) == {k \in keys : k[1] = e}

\* a Prepare that stores the requested number as it is
ClampNone(n) == n

\* if numKeys < 1 { numKeys = 1 }
ClampMin1(n) == IF n < 1 THEN 1 ELSE n

\* a step that is no Status call returns no StatusResult
ClearStatus == statusRet' = [e \in Execs |-> NoStatus]

\* a Stop that leaves the registry entry in place
UnregisterNothing(reg, key) == reg

\* delete(registry, key)
Unregister(reg, key) == [reg EXCEPT ![key] = NoEntry]

\* a Start that goes on whatever the ping returned
ProbePassedUnpinged(e) == urlValid[e]

\* Start goes on to register and launch only if client and ping succeeded
ProbePassed(e) == urlValid[e] /\ reachable

\* what clients.PingRedis returned to Start, which pings once its client
\* was created
PingOutcome(e) ==
  IF ~urlValid[e] THEN "none" ELSE IF reachable THEN "ok" ELSE "failed"

\* the result r of a Start, with the outcome of its ping
AfterPing(e, r) == [r EXCEPT !.pinged = PingOutcome(e)]

\* Stop may be called once Start has returned, also after a failed Start
StartReturned(e) == phase[e] \in {"running", "startFailed"}

\* the n-th Stop call of an execution is made after the (n-1)-th was made
MayBeginStop(e, n) ==
  /\ StartReturned(e)
  /\ spc[e][n] = "idle"
  /\ n > 1 => spc[e][n - 1] = "returned"

\* what has become of the target operations of an execution's workers:
\* one succeeded, one failed, a failure was written to the log (log.Warn)
NoOps == [ok |-> FALSE, failed |-> FALSE, logged |-> FALSE]

\* a target operation returns; logs says whether the code logs its error
OpDone(o, ok, logs) ==
  [ok |-> o.ok \/ ok,
   failed |-> o.failed \/ ~ok,
   logged |-> o.logged \/ (~ok /\ logs)]

\* request.Target.Attributes[AttrRedisURL] is present, and the values of
\* the parameters the action requires to be non-empty
NoRequest == [hasURL |-> FALSE, required |-> {}]

\* a Prepare that only looks at the target address
MissingRequiredURLOnly(hasURL, required) == ~hasURL

\* if len(redisURL) == 0 { return nil, error }; if pattern == "" { return
\* nil, error }
MissingRequired(hasURL, required) == ~hasURL \/ "" \in required

\* no CLIENT PAUSE is in force
\* activeConnections holds no entry under a key
NoConnections == [present |-> FALSE, conns |-> {}]

\* the locks of the big key attack and the threads that use them: the calls
\* of Start, Status and Stop (two concurrent ones) and the worker goroutine
Locks == {"runningAttacksMu", "mu"}
Threads == {"Start", "Status", "StopA", "StopB", "runBigKeyCycles"}

\* a Close that leaves the handle open
CloseLeaks(open) == open

\* client.Close(): whether the handle is open afterwards
Close(open) == FALSE

NoPause == [mode |-> "none", until |-> 0]

\* ---------------------------------------------------------------- Init
InitState ==
  /\ now = 0
  /\ reachable = TRUE
  /\ phase = [e \in Execs |-> "unprepared"]
  /\ stateOf = [e \in Execs |-> e]
  /\ signalReceived = FALSE
  /\ request = [e \in Execs |-> NoRequest]
  /\ ops = [e \in Execs |-> NoOps]
  /\ backoff = [e \in Execs |-> FALSE]
  /\ urlValid = [e \in Execs |-> TRUE]
  /\ EndTime = [e \in Execs |-> 0]
  /\ startRet = [e \in Execs |-> NoRet]
  /\ statusRet = [e \in Execs |-> NoStatus]
  /\ spc = [e \in Execs |-> [n \in Callers |-> "idle"]]
  /\ stopRet = [e \in Execs |-> [n \in Callers |-> NoStop]]
  /\ targetKeys = {}
  /\ NumKeys = [e \in Execs |-> 1]
  /\ KeySize = [e \in Execs |-> 0]
  /\ runningAttacks = [k \in Execs |-> NoEntry]
  /\ stats = [e \in Execs |-> EmptyStats]
  /\ wpc = [e \in Execs |-> "none"]
  /\ wi = [e \in Execs |-> 0]
  /\ wCycle = [e \in Execs |-> 0]
  /\ wCreated = [e \in Execs |-> {}]
  /\ wClient = [e \in Execs |-> FALSE]
  /\ Concurrency = [e \in Execs |-> 1]
  /\ cachePenetrationCancels = [k \in Execs |-> NoEntry]
  /\ cachePenetrationCounts = [k \in Execs |-> NoEntry]
  /\ ctxCancelled = [e \in Execs |-> FALSE]
  /\ counter = [e \in Execs |-> 0]
  /\ ppc = [e \in Execs |-> [w \in Workers |-> "none"]]
  /\ keyCounter = [e \in Execs |-> [w \in Workers |-> 0]]
  /\ pClient = [e \in Execs |-> [w \in Workers |-> FALSE]]
  /\ ValueSize = [e \in Execs |-> 2 * MiB]
  /\ MaxMemory = [e \in Execs |-> 0]
  /\ CreatedKeys = [e \in Execs |-> {}]
  /\ mfpc = [e \in Execs |-> "none"]
  /\ mfKeyCounter = [e \in Execs |-> 0]
  /\ totalBytes = [e \in Execs |-> 0]
  /\ mfClient = [e \in Execs |-> FALSE]
  /\ \E m \in IF kind = "maxmemory" THEN {"0", "104857600"} ELSE {"0"},
        p \in IF kind = "maxmemory" THEN {"noeviction", "allkeys-lru"}
                                     ELSE {"noeviction"} :
       cfg = [q \in ConfigParams |-> IF q = "maxmemory" THEN m ELSE p]
  /\ NewMaxmemory = [e \in Execs |-> ""]
  /\ NewPolicy = [e \in Execs |-> ""]
  /\ OriginalMaxmemory = [e \in Execs |-> ""]
  /\ OriginalPolicy = [e \in Execs |-> ""]
  /\ cfgBefore = [e \in Execs |-> <<>>]
  /\ configSets = [e \in Execs |-> {}]
  /\ startedDuring = [e \in Execs |-> {}]
  /\ MaxMemoryPercent = [e \in Execs |-> 0]
  /\ MaxMemoryBytes = [e \in Execs |-> 0]
  /\ ThresholdExceeded = [e \in Execs |-> FALSE]
  /\ MaxObserved = [e \in Execs |-> 0]
  /\ MaxLatencyMs = [e \in Execs |-> 0]
  /\ TotalPings = [e \in Execs |-> 0]
  /\ FailedPings = [e \in Execs |-> 0]
  /\ hist = [e \in Execs |-> NoHistory]
  /\ db \in IF kind \in {"keydelete", "expiration"} THEN [DbKeys -> DbValues]
                                  ELSE {[k \in DbKeys |-> NoValue]}
  /\ Pattern = [e \in Execs |-> ""]
  /\ MaxKeys = [e \in Execs |-> 0]
  /\ RestoreOnStop = [e \in Execs |-> FALSE]
  /\ TTLSeconds = [e \in Execs |-> 0]
  /\ AffectedKeys = [e \in Execs |-> {}]
  /\ SkippedNonString = [e \in Execs |-> 0]
  /\ keyTTL = [k \in DbKeys |-> -1]
  /\ PauseMode = [e \in Execs |-> ""]
  /\ clientPause = NoPause
  /\ NumConnections = [e \in Execs |-> 0]
  /\ ConnectionCount = [e \in Execs |-> 0]
  /\ activeConnections = [k \in Execs |-> NoConnections]
  /\ openConns = {}
  /\ kapc = [e \in Execs |-> "none"]
  /\ stopClosed = [e \in Execs |-> {}]
  /\ mutex = [l \in Locks |-> "free"]
  /\ held = [t \in Threads |-> 0]
  /\ lpc = [t \in Threads |-> "idle"]
  /\ DeletedKeys = [e \in Execs |-> {}]
  /\ BackupData = [e \in Execs |-> <<>>]
  /\ dbBefore = [e \in Execs |-> <<>>]

\* one execution of an action of any kind
Init ==
  /\ kind \in Kinds
  /\ active = {1}
  /\ InitState

\* ---------------------------------------------------------------- environment
\* the clock advances; it counts the seconds since the executions were
\* prepared, the code compares time.Now() with state.EndTime and nothing
\* else, so the clock is followed until the last end time is reached
Tick ==
  /\ now < MaxTime
  /\ \A e \in active : phase[e] # "unprepared"
  /\ \E e \in active : now < EndTime[e]
  /\ now' = now + 1
  /\ ClearStatus
  /\ UNCHANGED <<notBK, kind, active, request, signalReceived, stateOf, ops,
                 backoff, reachable, phase, urlValid, EndTime, startRet, spc,
                 stopRet, targetKeys, bkVars>>

\* the target becomes unreachable, or reachable again
TargetFlip ==
  /\ reachable' = ~reachable
  /\ ClearStatus
  /\ UNCHANGED <<notBK, kind, active, request, signalReceived, stateOf, ops,
                 backoff, now, phase, urlValid, EndTime, startRet, spc, stopRet,
                 targetKeys, bkVars>>

\* ---------------------------------------------------------------- big key
\* bigKeyAttack.Prepare
BKPrepare(e) ==
  /\ kind = "bigkey"
  /\ e \in active
  /\ phase[e] = "unprepared"
  /\ \E hasURL \in BOOLEAN, d \in 0..MaxDuration, v \in BOOLEAN,
        n \in 0..MaxNumKeys, keySizeMB \in {0, 1} :
       /\ request' = [request EXCEPT ![e] =
                        [hasURL |-> hasURL, required |-> {}]]
       /\ IF MissingRequired(hasURL, {})
          THEN /\ phase' = [phase EXCEPT ![e] = "prepareFailed"]
               /\ UNCHANGED <<EndTime, urlValid, NumKeys, KeySize>>
          ELSE /\ phase' = [phase EXCEPT ![e] = "prepared"]
               /\ EndTime' = [EndTime EXCEPT ![e] = now + d]
               /\ urlValid' = [urlValid EXCEPT ![e] = v]
               /\ NumKeys' = [NumKeys EXCEPT ![e] = ClampMin1(n)]
               /\ KeySize' = [KeySize EXCEPT ![e] = ClampMin1(keySizeMB) * MiB]
  /\ ClearStatus
  /\ UNCHANGED <<notBK, kind, active, signalReceived, stateOf, ops, backoff,
                 now, reachable, startRet, spc, stopRet, targetKeys,
                 runningAttacks, stats, wpc, wi, wCycle, wCreated, wClient>>

\* bigKeyAttack.Start: client, ping, test key, register, go runBigKeyCycles.
\* The test key is set and deleted within the call.
BKStart(e) ==
  /\ kind = "bigkey"
  /\ phase[e] = "prepared"
  /\ \E oom \in BOOLEAN :
       IF ~ProbePassed(e)
       THEN /\ startRet' = [startRet EXCEPT ![e] = AfterPing(e, StartError(ProbeFailure(e)))]
            /\ phase' = [phase EXCEPT ![e] = "startFailed"]
            /\ UNCHANGED <<runningAttacks, stats, wpc>>
       ELSE IF oom
       THEN /\ startRet' = [startRet EXCEPT ![e] =
                 AfterPing(e, [StartError("testkey") EXCEPT !.level = "error"])]
            /\ phase' = [phase EXCEPT ![e] = "startFailed"]
            /\ UNCHANGED <<runningAttacks, stats, wpc>>
       ELSE /\ stats' = [stats EXCEPT ![e] = EmptyStats]
            /\ runningAttacks' = [runningAttacks EXCEPT ![ExecutionId(stateOf[e])] = e]
            /\ wpc' = [wpc EXCEPT ![e] = "top"]
            /\ startRet' = [startRet EXCEPT ![e] = AfterPing(e, StartOK)]
            /\ phase' = [phase EXCEPT ![e] = "running"]
  /\ ClearStatus
  /\ UNCHANGED <<notBK, kind, active, request, signalReceived, stateOf, ops,
                 backoff, now, reachable, urlValid, EndTime, spc, stopRet,
                 targetKeys, NumKeys, KeySize, wi, wCycle, wCreated, wClient>>

\* runBigKeyCycles, head of the for loop: the non-blocking check of stopChan,
\* then a fresh client for the cycle.  The loop never looks at state.EndTime.
BKWorkerTop(e) ==
  /\ kind = "bigkey"
  /\ wpc[e] = "top"
  /\ IF stats[e].closed
     THEN /\ wpc' = [wpc EXCEPT ![e] = "done"]
          /\ UNCHANGED <<stats, wi, wCreated, wClient>>
     ELSE /\ wCycle[e] < MaxCycles
          /\ IF ~urlValid[e]
             THEN /\ stats' = [stats EXCEPT ![e].lastError = TRUE]
                  /\ wpc' = [wpc EXCEPT ![e] = "top"]
                  /\ UNCHANGED <<wi, wCreated, wClient>>
             ELSE /\ wClient' = [wClient EXCEPT ![e] = TRUE]
                  /\ wi' = [wi EXCEPT ![e] = 0]
                  /\ wCreated' = [wCreated EXCEPT ![e] = {}]
                  /\ wpc' = [wpc EXCEPT ![e] = "keyloop"]
                  /\ UNCHANGED stats
  /\ ClearStatus
  /\ UNCHANGED <<notBK, commonVars, NumKeys, KeySize, runningAttacks, wCycle>>

\* head of the key loop: i < NumKeys, then the check of stopChan; a stopped
\* worker deletes the keys of this cycle (results ignored, nothing counted)
BKWorkerKeyLoop(e) ==
  /\ kind = "bigkey"
  /\ wpc[e] = "keyloop"
  /\ IF wi[e] >= NumKeys[e]
     THEN /\ wpc' = [wpc EXCEPT ![e] = "hold"]
          /\ UNCHANGED <<targetKeys, wClient>>
     ELSE IF stats[e].closed
     THEN /\ targetKeys' = IF reachable THEN targetKeys \ wCreated[e] ELSE targetKeys
          /\ wClient' = [wClient EXCEPT ![e] = Close(@)]
          /\ wpc' = [wpc EXCEPT ![e] = "done"]
     ELSE /\ wpc' = [wpc EXCEPT ![e] = "set"]
          /\ UNCHANGED <<targetKeys, wClient>>
  /\ ops' = IF wi[e] < NumKeys[e] /\ stats[e].closed /\ wCreated[e] # {}
            THEN [ops EXCEPT ![e] = OpDone(@, reachable, FALSE)]
            ELSE ops
  /\ backoff' = IF wi[e] < NumKeys[e] /\ stats[e].closed
                THEN [backoff EXCEPT ![e] = FALSE] ELSE backoff
  /\ ClearStatus
  /\ UNCHANGED <<notBK, kind, active, request, signalReceived, stateOf, now,
                 reachable, phase, urlValid, EndTime, startRet, spc, stopRet,
                 NumKeys, KeySize, runningAttacks, stats, wi, wCycle, wCreated>>

\* client.Set of key i of the cycle; a failure is recorded and the loop goes on
BKWorkerSet(e) ==
  /\ kind = "bigkey"
  /\ wpc[e] = "set"
  /\ \E oom \in BOOLEAN :
       IF reachable /\ ~oom
       THEN /\ targetKeys' = targetKeys \cup {KeyName(stateOf[e], wCycle[e], wi[e])}
            /\ wCreated' = [wCreated EXCEPT ![e] = @ \cup {KeyName(stateOf[e], wCycle[e], wi[e])}]
            /\ stats' = [stats EXCEPT ![e].totalCreated = @ + 1]
            /\ ops' = [ops EXCEPT ![e] = OpDone(@, TRUE, TRUE)]
            /\ backoff' = [backoff EXCEPT ![e] = FALSE]
       ELSE /\ stats' = [stats EXCEPT ![e].lastError = TRUE]
            /\ ops' = [ops EXCEPT ![e] = OpDone(@, FALSE, TRUE)]
            /\ backoff' = [backoff EXCEPT ![e] = TRUE]
            /\ UNCHANGED <<targetKeys, wCreated>>
  /\ wi' = [wi EXCEPT ![e] = @ + 1]
  /\ wpc' = [wpc EXCEPT ![e] = "keyloop"]
  /\ ClearStatus
  /\ UNCHANGED <<notBK, kind, active, request, signalReceived, stateOf, now,
                 reachable, phase, urlValid, EndTime, startRet, spc, stopRet,
                 NumKeys, KeySize, runningAttacks, wCycle, wClient>>

\* the hold select, branch stopChan: delete the keys of the cycle, counting
\* every one as deleted whatever DEL answered, and return
BKWorkerHoldStopped(e) ==
  /\ kind = "bigkey"
  /\ wpc[e] = "hold"
  /\ stats[e].closed
  /\ targetKeys' = IF reachable THEN targetKeys \ wCreated[e] ELSE targetKeys
  /\ stats' = [stats EXCEPT ![e].totalDeleted = @ + Cardinality(wCreated[e])]
  /\ wClient' = [wClient EXCEPT ![e] = Close(@)]
  /\ wpc' = [wpc EXCEPT ![e] = "done"]
  /\ ops' = IF wCreated[e] # {}
            THEN [ops EXCEPT ![e] = OpDone(@, reachable, FALSE)]
            ELSE ops
  /\ backoff' = [backoff EXCEPT ![e] = FALSE]
  /\ ClearStatus
  /\ UNCHANGED <<notBK, kind, active, request, signalReceived, stateOf, now,
                 reachable, phase, urlValid, EndTime, startRet, spc, stopRet,
                 NumKeys, KeySize, runningAttacks, wi, wCycle, wCreated>>

\* the hold select, branch time.After(500ms) (select picks any ready branch,
\* so this one also when stopChan is closed): delete the keys of the cycle,
\* counting the successful deletes, close the client, count the cycle
BKWorkerHoldElapsed(e) ==
  /\ kind = "bigkey"
  /\ wpc[e] = "hold"
  /\ targetKeys' = IF reachable THEN targetKeys \ wCreated[e] ELSE targetKeys
  /\ stats' = [stats EXCEPT
                 ![e].totalDeleted = IF reachable THEN @ + Cardinality(wCreated[e]) ELSE @,
                 ![e].cycleCount = wCycle[e] + 1]
  /\ wCycle' = [wCycle EXCEPT ![e] = @ + 1]
  /\ wClient' = [wClient EXCEPT ![e] = Close(@)]
  /\ wpc' = [wpc EXCEPT ![e] = "pause"]
  /\ ops' = IF wCreated[e] # {}
            THEN [ops EXCEPT ![e] = OpDone(@, reachable, TRUE)]
            ELSE ops
  /\ backoff' = [backoff EXCEPT ![e] = wCreated[e] # {} /\ ~reachable]
  /\ ClearStatus
  /\ UNCHANGED <<notBK, kind, active, request, signalReceived, stateOf, now,
                 reachable, phase, urlValid, EndTime, startRet, spc, stopRet,
                 NumKeys, KeySize, runningAttacks, wi, wCreated>>

\* the pause select between cycles: stopChan returns, time.After(100ms)
\* goes back to the head of the loop
BKWorkerPause(e) ==
  /\ kind = "bigkey"
  /\ wpc[e] = "pause"
  /\ \/ /\ stats[e].closed
        /\ wpc' = [wpc EXCEPT ![e] = "done"]
     \/ wpc' = [wpc EXCEPT ![e] = "top"]
  /\ backoff' = [backoff EXCEPT ![e] = FALSE]
  /\ ClearStatus
  /\ UNCHANGED <<notBK, kind, active, request, signalReceived, stateOf, ops,
                 now, reachable, phase, urlValid, EndTime, startRet, spc,
                 stopRet, targetKeys, NumKeys, KeySize, runningAttacks, stats,
                 wi, wCycle, wCreated, wClient>>

\* bigKeyAttack.Status
BKStatus(e) ==
  /\ kind = "bigkey"
  /\ phase[e] \in {"prepared", "running", "startFailed"}
  /\ LET s == runningAttacks[ExecutionId(stateOf[e])] IN
     statusRet' = [statusRet EXCEPT ![e] =
        [NoStatus EXCEPT
           !.called = TRUE, !.reach = reachable, !.synced = TRUE,
           !.completed = now >= EndTime[e],
           !.cycles = IF s # NoEntry THEN stats[s].cycleCount ELSE 0,
           !.created = IF s # NoEntry THEN stats[s].totalCreated ELSE 0,
           !.deleted = IF s # NoEntry THEN stats[s].totalDeleted ELSE 0]]
  /\ UNCHANGED <<notBK, kind, active, request, signalReceived, stateOf, ops,
                 backoff, now, reachable, phase, urlValid, EndTime, startRet,
                 spc, stopRet, targetKeys, bkVars>>

\* bigKeyAttack.Stop, the critical section: close stopChan, read the
\* counters, delete the registry entry
BKStopSignal(e, n) ==
  /\ kind = "bigkey"
  /\ MayBeginStop(e, n)
  /\ LET s == runningAttacks[ExecutionId(stateOf[e])] IN
     IF s # NoEntry
     THEN /\ stats' = [stats EXCEPT ![s].closed = TRUE, ![s].closes = @ + 1]
          /\ runningAttacks' = Unregister(runningAttacks, ExecutionId(stateOf[e]))
          /\ stopRet' = [stopRet EXCEPT ![e][n] =
               [NoStop EXCEPT !.signalled = TRUE,
                              !.cycles = stats[s].cycleCount,
                              !.created = stats[s].totalCreated,
                              !.deleted = stats[s].totalDeleted]]
     ELSE UNCHANGED <<stats, runningAttacks, stopRet>>
  /\ spc' = [spc EXCEPT ![e][n] = "sleep"]
  /\ ClearStatus
  /\ UNCHANGED <<notBK, kind, active, request, signalReceived, stateOf, ops,
                 backoff, now, reachable, phase, urlValid, EndTime, startRet,
                 targetKeys, NumKeys, KeySize, wpc, wi, wCycle, wCreated,
                 wClient>>

\* bigKeyAttack.Stop after the 200ms sleep: the safety net, SCAN for the
\* prefix and DEL what the scan returned
BKStopCleanup(e, n) ==
  /\ kind = "bigkey"
  /\ spc[e][n] = "sleep"
  /\ IF ~urlValid[e]
     THEN /\ stopRet' = [stopRet EXCEPT ![e][n].level = "warn",
                                        ![e][n].cleanupFailed = TRUE]
          /\ UNCHANGED targetKeys
     ELSE /\ targetKeys' = IF reachable
                           THEN targetKeys \ KeysWithPrefix(stateOf[e], targetKeys)
                           ELSE targetKeys
          /\ stopRet' = [stopRet EXCEPT ![e][n].level = "info",
                                        ![e][n].reach = reachable,
                                        ![e][n].cleanupFailed = ~reachable]
  /\ spc' = [spc EXCEPT ![e][n] = "returned"]
  /\ ClearStatus
  /\ UNCHANGED <<notBK, kind, active, request, signalReceived, stateOf, ops,
                 backoff, now, reachable, phase, urlValid, EndTime, startRet,
                 bkVars>>

BKNext ==
  \/ \E e \in Execs : BKPrepare(e)
  \/ \E e \in Execs : BKStart(e)
  \/ \E e \in Execs : BKWorkerTop(e)
  \/ \E e \in Execs : BKWorkerKeyLoop(e)
  \/ \E e \in Execs : BKWorkerSet(e)
  \/ \E e \in Execs : BKWorkerHoldStopped(e)
  \/ \E e \in Execs : BKWorkerHoldElapsed(e)
  \/ \E e \in Execs : BKWorkerPause(e)
  \/ \E e \in Execs : BKStatus(e)
  \/ \E e \in Execs, n \in Callers : BKStopSignal(e, n)
  \/ \E e \in Execs, n \in Callers : BKStopCleanup(e, n)

\* ---------------------------------------------------------------- cache penetration
\* if concurrency < 1 { concurrency = 10 }
DefaultConcurrency == 10
PenetrationConcurrency(c) == IF c < 1 THEN DefaultConcurrency ELSE c

\* state.AttackKey = "<url>-<UnixNano>": a nonce
AttackKey(e) == e

\* a worker that checks the deadline only and not the cancellation
CtxDoneDeadlineOnly(e) == now >= EndTime[e]

\* workerCtx: context.WithDeadline(Background, EndTime); Done is closed by
\* cancel() or when the deadline has passed
CtxDone(e) == ctxCancelled[e] \/ now >= EndTime[e]

\* cachePenetrationAttack.Prepare
CPPrepare(e) ==
  /\ kind = "penetration"
  /\ e \in active
  /\ phase[e] = "unprepared"
  /\ \E hasURL \in BOOLEAN, d \in 0..MaxDuration, v \in BOOLEAN,
        c \in 0..MaxConcurrency :
       /\ request' = [request EXCEPT ![e] =
                        [hasURL |-> hasURL, required |-> {}]]
       /\ IF MissingRequired(hasURL, {})
          THEN /\ phase' = [phase EXCEPT ![e] = "prepareFailed"]
               /\ UNCHANGED <<EndTime, urlValid, Concurrency>>
          ELSE /\ phase' = [phase EXCEPT ![e] = "prepared"]
               /\ EndTime' = [EndTime EXCEPT ![e] = now + d]
               /\ urlValid' = [urlValid EXCEPT ![e] = v]
               /\ Concurrency' = [Concurrency EXCEPT ![e] = PenetrationConcurrency(c)]
  /\ ClearStatus
  /\ UNCHANGED <<notCP, kind, active, signalReceived, stateOf, ops, backoff,
                 now, reachable, startRet, spc, stopRet, targetKeys,
                 cachePenetrationCancels, cachePenetrationCounts, ctxCancelled,
                 counter, ppc, keyCounter, pClient>>

\* cachePenetrationAttack.Start: client, ping, register cancel and counter,
\* go sendRequests for each worker
CPStart(e) ==
  /\ kind = "penetration"
  /\ phase[e] = "prepared"
  /\ IF ~ProbePassed(e)
     THEN /\ startRet' = [startRet EXCEPT ![e] = AfterPing(e, StartError(ProbeFailure(e)))]
          /\ phase' = [phase EXCEPT ![e] = "startFailed"]
          /\ UNCHANGED <<cachePenetrationCancels, cachePenetrationCounts,
                         ctxCancelled, counter, ppc>>
     ELSE /\ ctxCancelled' = [ctxCancelled EXCEPT ![e] = FALSE]
          /\ counter' = [counter EXCEPT ![e] = 0]
          /\ cachePenetrationCancels' =
               [cachePenetrationCancels EXCEPT ![AttackKey(stateOf[e])] = e]
          /\ cachePenetrationCounts' =
               [cachePenetrationCounts EXCEPT ![AttackKey(stateOf[e])] = e]
          /\ ppc' = [ppc EXCEPT ![e] =
               [w \in Workers |-> IF w <= Concurrency[e] THEN "init" ELSE "none"]]
          /\ startRet' = [startRet EXCEPT ![e] = AfterPing(e, StartOK)]
          /\ phase' = [phase EXCEPT ![e] = "running"]
  /\ ClearStatus
  /\ UNCHANGED <<notCP, kind, active, request, signalReceived, stateOf, ops,
                 backoff, now, reachable, urlValid, EndTime, spc, stopRet,
                 targetKeys, Concurrency, keyCounter, pClient>>

\* sendRequests, before the loop: the worker's own client
CPWorkerInit(e, w) ==
  /\ kind = "penetration"
  /\ ppc[e][w] = "init"
  /\ IF ~urlValid[e]
     THEN /\ ppc' = [ppc EXCEPT ![e][w] = "done"]
          /\ UNCHANGED pClient
     ELSE /\ ppc' = [ppc EXCEPT ![e][w] = "loop"]
          /\ pClient' = [pClient EXCEPT ![e][w] = TRUE]
  /\ ClearStatus
  /\ UNCHANGED <<notCP, commonVars, Concurrency, cachePenetrationCancels,
                 cachePenetrationCounts, ctxCancelled, counter, keyCounter>>

\* sendRequests, head of the loop: the non-blocking check of ctx.Done()
CPWorkerLoop(e, w) ==
  /\ kind = "penetration"
  /\ ppc[e][w] = "loop"
  /\ IF CtxDone(e)
     THEN /\ ppc' = [ppc EXCEPT ![e][w] = "done"]
          /\ pClient' = [pClient EXCEPT ![e][w] = Close(@)]
          /\ backoff' = IF w = 1 THEN [backoff EXCEPT ![e] = FALSE] ELSE backoff
     ELSE /\ ppc' = [ppc EXCEPT ![e][w] = "get"]
          /\ UNCHANGED <<pClient, backoff>>
  /\ ClearStatus
  /\ UNCHANGED <<notCP, kind, active, request, signalReceived, stateOf, ops,
                 now, reachable, phase, urlValid, EndTime, startRet, spc,
                 stopRet, targetKeys, Concurrency, cachePenetrationCancels,
                 cachePenetrationCounts, ctxCancelled, counter, keyCounter>>

\* client.Get of a key that does not exist; the answer is dropped and the
\* request counted
CPWorkerGet(e, w) ==
  /\ kind = "penetration"
  /\ ppc[e][w] = "get"
  /\ keyCounter[e][w] < MaxRequests
  /\ counter' = [counter EXCEPT ![e] = @ + 1]
  /\ keyCounter' = [keyCounter EXCEPT ![e][w] = @ + 1]
  /\ ppc' = [ppc EXCEPT ![e][w] = "loop"]
  /\ ops' = [ops EXCEPT ![e] = OpDone(@, reachable, FALSE)]
  /\ backoff' = IF w = 1 THEN [backoff EXCEPT ![e] = ~reachable] ELSE backoff
  /\ ClearStatus
  /\ UNCHANGED <<notCP, kind, active, request, signalReceived, stateOf, now,
                 reachable, phase, urlValid, EndTime, startRet, spc, stopRet,
                 targetKeys, Concurrency, cachePenetrationCancels,
                 cachePenetrationCounts, ctxCancelled, pClient>>

\* cachePenetrationAttack.Status
CPStatus(e) ==
  /\ kind = "penetration"
  /\ phase[e] \in {"prepared", "running", "startFailed"}
  /\ LET c == cachePenetrationCounts[AttackKey(stateOf[e])] IN
     statusRet' = [statusRet EXCEPT ![e] =
        [NoStatus EXCEPT
           !.called = TRUE, !.reach = reachable, !.synced = TRUE,
           !.completed = now >= EndTime[e],
           !.requests = IF c # NoEntry THEN counter[c] ELSE 0]]
  /\ UNCHANGED <<notCP, cpVars, kind, active, request, signalReceived, stateOf,
                 ops, backoff, now, reachable, phase, urlValid, EndTime,
                 startRet, spc, stopRet, targetKeys>>

\* cachePenetrationAttack.Stop: take cancel and counter out of the maps,
\* cancel, report the counter
CPStop(e, n) ==
  /\ kind = "penetration"
  /\ MayBeginStop(e, n)
  /\ LET cancel == cachePenetrationCancels[AttackKey(stateOf[e])]
         c == cachePenetrationCounts[AttackKey(stateOf[e])] IN
     /\ cachePenetrationCancels' = Unregister(cachePenetrationCancels, AttackKey(stateOf[e]))
     /\ cachePenetrationCounts' = Unregister(cachePenetrationCounts, AttackKey(stateOf[e]))
     /\ ctxCancelled' = IF cancel # NoEntry
                        THEN [ctxCancelled EXCEPT ![cancel] = TRUE]
                        ELSE ctxCancelled
     /\ stopRet' = [stopRet EXCEPT ![e][n] =
          [NoStop EXCEPT !.level = "info",
                         !.signalled = cancel # NoEntry,
                         !.requests = IF c # NoEntry THEN counter[c] ELSE 0,
                         !.reach = reachable]]
  /\ spc' = [spc EXCEPT ![e][n] = "returned"]
  /\ ClearStatus
  /\ UNCHANGED <<notCP, kind, active, request, signalReceived, stateOf, ops,
                 backoff, now, reachable, phase, urlValid, EndTime, startRet,
                 targetKeys, Concurrency, counter, ppc, keyCounter, pClient>>

CPNext ==
  \/ \E e \in Execs : CPPrepare(e)
  \/ \E e \in Execs : CPStart(e)
  \/ \E e \in Execs, w \in Workers : CPWorkerInit(e, w)
  \/ \E e \in Execs, w \in Workers : CPWorkerLoop(e, w)
  \/ \E e \in Execs, w \in Workers : CPWorkerGet(e, w)
  \/ \E e \in Execs : CPStatus(e)
  \/ \E e \in Execs, n \in Callers : CPStop(e, n)

\* ---------------------------------------------------------------- memory fill
\* fmt.Sprintf("%s%d", state.KeyPrefix, keyCounter)
FillKeyName(e, c) == <<e, c>>

\* the sizes and rates a request may ask for
ValueSizes == {0, 2 * MiB}
FillRates == {0, 1}

\* memoryFillAttack.Prepare
MFPrepare(e) ==
  /\ kind = "memfill"
  /\ e \in active
  /\ phase[e] = "unprepared"
  /\ \E hasURL \in BOOLEAN, d \in 0..MaxDuration, v \in BOOLEAN, m \in 0..1,
        valueSize \in ValueSizes :
       /\ request' = [request EXCEPT ![e] =
                        [hasURL |-> hasURL, required |-> {}]]
       /\ IF MissingRequired(hasURL, {})
          THEN /\ phase' = [phase EXCEPT ![e] = "prepareFailed"]
               /\ UNCHANGED <<EndTime, urlValid, ValueSize,
                              MaxMemory>>
          ELSE /\ phase' = [phase EXCEPT ![e] = "prepared"]
               /\ EndTime' = [EndTime EXCEPT ![e] = now + d]
               /\ urlValid' = [urlValid EXCEPT ![e] = v]
               /\ ValueSize' = [ValueSize EXCEPT ![e] = valueSize]
               /\ MaxMemory' = [MaxMemory EXCEPT ![e] = m]
  /\ ClearStatus
  /\ UNCHANGED <<notMF, kind, active, signalReceived, stateOf, ops, backoff,
                 now, reachable, startRet, spc, stopRet, targetKeys,
                 CreatedKeys, mfpc, mfKeyCounter, totalBytes, mfClient>>

\* memoryFillAttack.Start: client, ping, go fillMemory.  Nothing is
\* registered: the worker has no cancellation handle.
MFStart(e) ==
  /\ kind = "memfill"
  /\ phase[e] = "prepared"
  /\ IF ~ProbePassed(e)
     THEN /\ startRet' = [startRet EXCEPT ![e] = AfterPing(e, StartError(ProbeFailure(e)))]
          /\ phase' = [phase EXCEPT ![e] = "startFailed"]
          /\ UNCHANGED mfpc
     ELSE /\ mfpc' = [mfpc EXCEPT ![e] = "init"]
          /\ startRet' = [startRet EXCEPT ![e] = AfterPing(e, StartOK)]
          /\ phase' = [phase EXCEPT ![e] = "running"]
  /\ ClearStatus
  /\ UNCHANGED <<notMF, kind, active, request, signalReceived, stateOf, ops,
                 backoff, now, reachable, urlValid, EndTime, spc, stopRet,
                 targetKeys, ValueSize, MaxMemory, CreatedKeys,
                 mfKeyCounter, totalBytes, mfClient>>

\* an integer division by zero panics
DivPanics(divisor) == divisor = 0

\* writesPerSecond := bytesPerSecond / state.ValueSize, raised to 1 if it is
\* below 1
WritesPerSecond(fillRate, valueSize) ==
  LET q == (fillRate * MiB) \div valueSize IN IF q < 1 THEN 1 ELSE q

\* the break test with no limit at all
LimitReachedNever(maxBytes, total) == FALSE

\* if maxBytes > 0 && totalBytes >= maxBytes { break }
LimitReached(maxBytes, total) == maxBytes > 0 /\ total >= maxBytes

\* fillMemory, before the loop: the worker's client, then the write rate and
\* the delay between writes; the panic of a division by zero ends the worker
\* (its deferred client.Close() runs) and with it the extension.
\* state.FillRate is read here and nowhere else, so the requested rate is
\* drawn where it is read
MFWorkerInit(e) ==
  /\ kind = "memfill"
  /\ mfpc[e] = "init"
  /\ IF ~urlValid[e]
     THEN /\ mfpc' = [mfpc EXCEPT ![e] = "done"]
          /\ UNCHANGED mfClient
     ELSE \E fillRate \in FillRates :
          IF DivPanics(ValueSize[e])
             \/ DivPanics(WritesPerSecond(fillRate, ValueSize[e]))
          THEN /\ mfpc' = [mfpc EXCEPT ![e] = "panic"]
               /\ UNCHANGED mfClient
          ELSE /\ mfpc' = [mfpc EXCEPT ![e] = "loop"]
               /\ mfClient' = [mfClient EXCEPT ![e] = TRUE]
  /\ ClearStatus
  /\ UNCHANGED <<notMF, commonVars, ValueSize, MaxMemory, CreatedKeys,
                 mfKeyCounter, totalBytes>>

\* fillMemory, head of the loop: for time.Now().Unix() < state.EndTime,
\* then the maxBytes break
MFWorkerLoop(e) ==
  /\ kind = "memfill"
  /\ mfpc[e] = "loop"
  /\ IF now >= EndTime[e] \/ LimitReached(MaxMemory[e] * MiB, totalBytes[e])
     THEN /\ mfpc' = [mfpc EXCEPT ![e] = "done"]
          /\ mfClient' = [mfClient EXCEPT ![e] = FALSE]
     ELSE /\ mfpc' = [mfpc EXCEPT ![e] = "set"]
          /\ UNCHANGED mfClient
  /\ ClearStatus
  /\ UNCHANGED <<notMF, commonVars, ValueSize, MaxMemory, CreatedKeys,
                 mfKeyCounter, totalBytes>>

\* client.Set of the next key, then the sleep (100ms after a failure, the
\* fill-rate delay after a success)
MFWorkerSet(e) ==
  /\ kind = "memfill"
  /\ mfpc[e] = "set"
  /\ mfKeyCounter[e] < MaxFillKeys
  /\ \E oom \in BOOLEAN :
       IF reachable /\ ~oom
       THEN /\ targetKeys' = targetKeys \cup {FillKeyName(e, mfKeyCounter[e])}
            /\ CreatedKeys' = [CreatedKeys EXCEPT ![e] =
                                 @ \cup {FillKeyName(e, mfKeyCounter[e])}]
            /\ totalBytes' = [totalBytes EXCEPT ![e] = @ + ValueSize[e]]
            /\ mfKeyCounter' = [mfKeyCounter EXCEPT ![e] = @ + 1]
            /\ ops' = [ops EXCEPT ![e] = OpDone(@, TRUE, TRUE)]
       ELSE /\ ops' = [ops EXCEPT ![e] = OpDone(@, FALSE, TRUE)]
            /\ UNCHANGED <<targetKeys, CreatedKeys, totalBytes, mfKeyCounter>>
  /\ mfpc' = [mfpc EXCEPT ![e] = "loop"]
  /\ backoff' = [backoff EXCEPT ![e] = FALSE]
  /\ ClearStatus
  /\ UNCHANGED <<notMF, kind, active, request, signalReceived, stateOf, now,
                 reachable, phase, urlValid, EndTime, startRet, spc, stopRet,
                 ValueSize, MaxMemory, mfClient>>

\* the keys Status and Stop find in state.CreatedKeys: the worker appends
\* to the struct Start was given, under a mutex local to fillMemory, while
\* the caller hands the state on, so they see the first j keys for some j
SeenCreatedKeys(e, j) == {k \in CreatedKeys[e] : k[2] < j}

\* memoryFillAttack.Status: len(state.CreatedKeys), read without a lock;
\* nothing about the keys is reported if no client can be made
MFStatus(e) ==
  /\ kind = "memfill"
  /\ phase[e] \in {"prepared", "running", "startFailed"}
  /\ \E j \in 0..mfKeyCounter[e] :
       statusRet' = [statusRet EXCEPT ![e] =
         [NoStatus EXCEPT !.called = TRUE, !.reach = reachable,
                          !.completed = now >= EndTime[e],
                          !.created = IF urlValid[e]
                                      THEN Cardinality(SeenCreatedKeys(e, j))
                                      ELSE 0]]
  /\ UNCHANGED <<notMF, mfVars, kind, active, request, signalReceived, stateOf,
                 ops, backoff, now, reachable, phase, urlValid, EndTime,
                 startRet, spc, stopRet, targetKeys>>

\* memoryFillAttack.Stop: client, DEL of every key in state.CreatedKeys
MFStop(e, n) ==
  /\ kind = "memfill"
  /\ MayBeginStop(e, n)
  /\ \E j \in 0..Cardinality(CreatedKeys[e]) :
       IF ~urlValid[e]
       THEN /\ stopRet' = [stopRet EXCEPT ![e][n] =
                 [NoStop EXCEPT !.err = TRUE, !.cleanupFailed = TRUE]]
            /\ UNCHANGED targetKeys
       ELSE /\ targetKeys' = IF reachable
                             THEN targetKeys \ SeenCreatedKeys(e, j)
                             ELSE targetKeys
            /\ stopRet' = [stopRet EXCEPT ![e][n] =
                 [NoStop EXCEPT
                    !.level = "info",
                    !.deleted = IF reachable
                                THEN Cardinality(SeenCreatedKeys(e, j)) ELSE 0,
                    !.reach = reachable,
                    !.cleanupFailed = ~reachable /\ SeenCreatedKeys(e, j) # {}]]
  /\ spc' = [spc EXCEPT ![e][n] = "returned"]
  /\ ClearStatus
  /\ UNCHANGED <<notMF, mfVars, kind, active, request, signalReceived, stateOf,
                 ops, backoff, now, reachable, phase, urlValid, EndTime,
                 startRet>>

MFNext ==
  \/ \E e \in Execs : MFPrepare(e)
  \/ \E e \in Execs : MFStart(e)
  \/ \E e \in Execs : MFWorkerInit(e)
  \/ \E e \in Execs : MFWorkerLoop(e)
  \/ \E e \in Execs : MFWorkerSet(e)
  \/ \E e \in Execs : MFStatus(e)
  \/ \E e \in Execs, n \in Callers : MFStop(e, n)

\* ---------------------------------------------------------------- maxmemory limit
\* what Redis stores for CONFIG SET maxmemory <value>; "" when it rejects it
ParseMaxmemory(v) ==
  CASE v = "0" -> "0"
    [] v = "10mb" -> "10485760"
    [] v = "10485760" -> "10485760"
    [] v = "104857600" -> "104857600"
    [] OTHER -> ""

\* the eviction policies Redis accepts
Policies == {"noeviction", "allkeys-lru", "allkeys-lfu", "allkeys-random",
             "volatile-lru", "volatile-ttl"}

\* the value CONFIG SET stores for a parameter; "" when Redis rejects it
ConfigValue(param, v) ==
  IF param = "maxmemory" THEN ParseMaxmemory(v)
  ELSE IF v \in Policies THEN v ELSE ""

\* client.ConfigSet(param, v).Err() == nil
ConfigSetOK(param, v) == reachable /\ ConfigValue(param, v) # ""

\* the configuration after client.ConfigSet(param, v)
ConfigSet(c, param, v) ==
  IF ConfigSetOK(param, v) THEN [c EXCEPT ![param] = ConfigValue(param, v)] ELSE c

\* client.ConfigGet(ctx, param).Result(): the map of the parameters that
\* match, for a parameter name the one entry name -> value
ConfigGet(c, param) == [q \in {param} |-> c[q]]

\* if len(configResult) >= 2 { state.Original... = configResult[param] }
CaptureOriginal(configResult, param, old) ==
  IF Cardinality(DOMAIN configResult) >= 2 THEN configResult[param] ELSE old

\* Start's test before CONFIG SET maxmemory-policy with every policy
SetsPolicyAlways(newPolicy) == newPolicy # ""

\* Start's test before CONFIG SET maxmemory-policy:
\* state.NewPolicy != "keep" && state.NewPolicy != ""
SetsPolicy(newPolicy) == newPolicy # "keep" /\ newPolicy # ""

\* Stop's test before it restores the policy:
\* state.OriginalPolicy != "" && state.NewPolicy != "keep"
RestoresPolicy(originalPolicy, newPolicy) ==
  originalPolicy # "" /\ newPolicy # "keep"

\* maxmemoryLimitAttack.Prepare
MMPrepare(e) ==
  /\ kind = "maxmemory"
  /\ e \in active
  /\ phase[e] = "unprepared"
  /\ \E hasURL \in BOOLEAN, d \in 0..MaxDuration, v \in BOOLEAN,
        m \in {"", "10mb", "bogus"},
        p \in {"keep", "", "allkeys-lfu", "bogus"} :
       /\ request' = [request EXCEPT ![e] =
                        [hasURL |-> hasURL, required |-> {m}]]
       /\ IF MissingRequired(hasURL, {m})
          THEN /\ phase' = [phase EXCEPT ![e] = "prepareFailed"]
               /\ UNCHANGED <<EndTime, urlValid, NewMaxmemory, NewPolicy>>
          ELSE /\ phase' = [phase EXCEPT ![e] = "prepared"]
               /\ EndTime' = [EndTime EXCEPT ![e] = now + d]
               /\ urlValid' = [urlValid EXCEPT ![e] = v]
               /\ NewMaxmemory' = [NewMaxmemory EXCEPT ![e] = m]
               /\ NewPolicy' = [NewPolicy EXCEPT ![e] = p]
  /\ ClearStatus
  /\ UNCHANGED <<notMM, kind, active, signalReceived, stateOf, ops, backoff,
                 now, reachable, startRet, spc, stopRet, targetKeys, cfg,
                 OriginalMaxmemory, OriginalPolicy, cfgBefore, configSets,
                 startedDuring>>

\* the executions whose Start has changed the target and whose Stop has not
\* been called yet
InForce ==
  {f \in Execs : phase[f] = "running" /\ \A n \in Callers : spc[f][n] = "idle"}

\* maxmemoryLimitAttack.Start: client, ping, capture the current settings,
\* set maxmemory, set the policy unless it is kept
MMStart(e) ==
  /\ kind = "maxmemory"
  /\ phase[e] = "prepared"
  /\ cfgBefore' = [cfgBefore EXCEPT ![e] = cfg]
  /\ startedDuring' = [startedDuring EXCEPT ![e] = InForce]
  /\ IF ~ProbePassed(e)
     THEN /\ startRet' = [startRet EXCEPT ![e] = AfterPing(e, StartError(ProbeFailure(e)))]
          /\ phase' = [phase EXCEPT ![e] = "startFailed"]
          /\ UNCHANGED <<cfg, OriginalMaxmemory, OriginalPolicy, configSets>>
     ELSE LET origMax == CaptureOriginal(ConfigGet(cfg, "maxmemory"),
                                         "maxmemory", OriginalMaxmemory[e])
              origPol == CaptureOriginal(ConfigGet(cfg, "maxmemory-policy"),
                                         "maxmemory-policy", OriginalPolicy[e])
              c1 == ConfigSet(cfg, "maxmemory", NewMaxmemory[e])
          IN
          /\ OriginalMaxmemory' = [OriginalMaxmemory EXCEPT ![e] = origMax]
          /\ OriginalPolicy' = [OriginalPolicy EXCEPT ![e] = origPol]
          /\ configSets' = [configSets EXCEPT ![e] =
               IF ~ConfigSetOK("maxmemory", NewMaxmemory[e])
               THEN {"maxmemory"}
               ELSE IF SetsPolicy(NewPolicy[e])
               THEN {"maxmemory", "maxmemory-policy"}
               ELSE {"maxmemory"}]
          /\ IF ~ConfigSetOK("maxmemory", NewMaxmemory[e])
             THEN /\ cfg' = cfg
                  /\ startRet' = [startRet EXCEPT ![e] = AfterPing(e, StartError("config"))]
                  /\ phase' = [phase EXCEPT ![e] = "startFailed"]
             ELSE IF SetsPolicy(NewPolicy[e])
                     /\ ~ConfigSetOK("maxmemory-policy", NewPolicy[e])
             THEN /\ cfg' = ConfigSet(c1, "maxmemory", origMax)
                  /\ startRet' = [startRet EXCEPT ![e] = AfterPing(e, StartError("config"))]
                  /\ phase' = [phase EXCEPT ![e] = "startFailed"]
             ELSE /\ cfg' = IF SetsPolicy(NewPolicy[e])
                            THEN ConfigSet(c1, "maxmemory-policy", NewPolicy[e])
                            ELSE c1
                  /\ startRet' = [startRet EXCEPT ![e] = AfterPing(e, StartOK)]
                  /\ phase' = [phase EXCEPT ![e] = "running"]
  /\ ClearStatus
  /\ UNCHANGED <<notMM, kind, active, request, signalReceived, stateOf, ops,
                 backoff, now, reachable, urlValid, EndTime, spc, stopRet,
                 targetKeys, NewMaxmemory, NewPolicy>>

\* maxmemoryLimitAttack.Status
MMStatus(e) ==
  /\ kind = "maxmemory"
  /\ phase[e] \in {"prepared", "running", "startFailed"}
  /\ statusRet' = [statusRet EXCEPT ![e] =
        [NoStatus EXCEPT !.called = TRUE, !.reach = reachable, !.completed = now >= EndTime[e]]]
  /\ UNCHANGED <<notMM, mmVars, kind, active, request, signalReceived, stateOf,
                 ops, backoff, now, reachable, phase, urlValid, EndTime,
                 startRet, spc, stopRet, targetKeys>>

\* maxmemoryLimitAttack.Stop: client, restore maxmemory if an original was
\* captured, restore the policy if one was captured and it was not kept
MMStop(e, n) ==
  /\ kind = "maxmemory"
  /\ MayBeginStop(e, n)
  /\ IF ~urlValid[e]
     THEN /\ stopRet' = [stopRet EXCEPT ![e][n] =
               [NoStop EXCEPT !.err = TRUE, !.cleanupFailed = TRUE]]
          /\ UNCHANGED cfg
     ELSE LET doMax == OriginalMaxmemory[e] # ""
              doPol == RestoresPolicy(OriginalPolicy[e], NewPolicy[e])
              errMax == doMax /\ ~ConfigSetOK("maxmemory", OriginalMaxmemory[e])
              errPol == doPol /\ ~ConfigSetOK("maxmemory-policy", OriginalPolicy[e])
              c1 == IF doMax THEN ConfigSet(cfg, "maxmemory", OriginalMaxmemory[e])
                    ELSE cfg
          IN
          /\ cfg' = IF doPol THEN ConfigSet(c1, "maxmemory-policy", OriginalPolicy[e])
                    ELSE c1
          /\ stopRet' = [stopRet EXCEPT ![e][n] =
               [NoStop EXCEPT
                  !.level = IF errMax \/ errPol THEN "warn" ELSE "info",
                  !.reach = reachable,
                  !.cleanupFailed = errMax \/ errPol,
                  !.sets = (IF doMax THEN {"maxmemory"} ELSE {})
                             \cup (IF doPol THEN {"maxmemory-policy"} ELSE {}),
                  !.restoreErrors = (IF errMax THEN {"maxmemory"} ELSE {})
                                      \cup (IF errPol THEN {"policy"} ELSE {})]]
  /\ spc' = [spc EXCEPT ![e][n] = "returned"]
  /\ ClearStatus
  /\ UNCHANGED <<notMM, kind, active, request, signalReceived, stateOf, ops,
                 backoff, now, reachable, phase, urlValid, EndTime, startRet,
                 targetKeys, NewMaxmemory, NewPolicy, OriginalMaxmemory,
                 OriginalPolicy, cfgBefore, configSets, startedDuring>>

MMNext ==
  \/ \E e \in Execs : MMPrepare(e)
  \/ \E e \in Execs : MMStart(e)
  \/ \E e \in Execs : MMStatus(e)
  \/ \E e \in Execs, n \in Callers : MMStop(e, n)

\* ---------------------------------------------------------------- checks
\* the samples of used_memory and maxmemory that INFO memory reports
UsedSamples == {0, MiB, 2 * MiB}
MaxSamples == {0, 2 * MiB}

\* float64(usedMemory) / float64(maxMemory) * 100 > state.MaxMemoryPercent
PercentExceeded(used, max, pct) == pct > 0 /\ max > 0 /\ used * 100 > pct * max

\* state.MaxMemoryBytes > 0 && usedMemory > state.MaxMemoryBytes
BytesExceeded(used, limit) == limit > 0 /\ used > limit

\* a check that fails as soon as its threshold was exceeded
ThresholdFailureAtOnce(completed, exceeded) == exceeded

\* if completed && state.ThresholdExceeded { result.Error = ... Failed }
ThresholdFailure(completed, exceeded) == completed /\ exceeded

\* a Status that returns the connection error as its Go error
StatusUnreachableError(completed) ==
  [NoStatus EXCEPT !.called = TRUE, !.completed = completed, !.err = TRUE]

\* the StatusResult of a check that cannot query the target: the Error
\* field is set, the Go error is nil
StatusUnreachable(completed) ==
  [NoStatus EXCEPT !.called = TRUE, !.completed = completed, !.failed = TRUE]

\* the StatusResult of a check that took a sample
StatusSampled(completed, exceeded, violation) ==
  [NoStatus EXCEPT !.called = TRUE, !.reach = TRUE, !.sampled = TRUE,
                   !.completed = completed,
                   !.violation = violation,
                   !.failed = ThresholdFailure(completed, exceeded),
                   !.warn = ~ThresholdFailure(completed, exceeded) /\ violation]

\* memoryCheck.Prepare
MCPrepare(e) ==
  /\ kind = "memcheck"
  /\ e \in active
  /\ phase[e] = "unprepared"
  /\ \E hasURL \in BOOLEAN, d \in 0..MaxDuration, v \in BOOLEAN, pct \in {0, 50},
        mb \in {0, 1} :
       /\ request' = [request EXCEPT ![e] =
                        [hasURL |-> hasURL, required |-> {}]]
       /\ IF MissingRequired(hasURL, {})
          THEN /\ phase' = [phase EXCEPT ![e] = "prepareFailed"]
               /\ UNCHANGED <<EndTime, urlValid, MaxMemoryPercent,
                              MaxMemoryBytes>>
          ELSE /\ phase' = [phase EXCEPT ![e] = "prepared"]
               /\ EndTime' = [EndTime EXCEPT ![e] = now + d]
               /\ urlValid' = [urlValid EXCEPT ![e] = v]
               /\ MaxMemoryPercent' = [MaxMemoryPercent EXCEPT ![e] = pct]
               /\ MaxMemoryBytes' = [MaxMemoryBytes EXCEPT ![e] = mb * MiB]
  /\ ThresholdExceeded' = [ThresholdExceeded EXCEPT ![e] = FALSE]
  /\ MaxObserved' = [MaxObserved EXCEPT ![e] = 0]
  /\ ClearStatus
  /\ UNCHANGED <<notMC, kind, active, signalReceived, stateOf, ops, backoff,
                 now, reachable, startRet, spc, stopRet, targetKeys,
                 MaxLatencyMs, TotalPings, FailedPings, hist>>

\* memoryCheck.Start: client, ping
MCStart(e) ==
  /\ kind = "memcheck"
  /\ phase[e] = "prepared"
  /\ IF ~ProbePassed(e)
     THEN /\ startRet' = [startRet EXCEPT ![e] = AfterPing(e, StartError(ProbeFailure(e)))]
          /\ phase' = [phase EXCEPT ![e] = "startFailed"]
     ELSE /\ startRet' = [startRet EXCEPT ![e] = AfterPing(e, StartOK)]
          /\ phase' = [phase EXCEPT ![e] = "running"]
  /\ ClearStatus
  /\ UNCHANGED <<notMC, mcVars, kind, active, request, signalReceived, stateOf,
                 ops, backoff, now, reachable, urlValid, EndTime, spc, stopRet,
                 targetKeys>>

\* memoryCheck.Status: one sample of INFO memory against the thresholds
MCStatus(e) ==
  /\ kind = "memcheck"
  /\ phase[e] \in {"prepared", "running", "startFailed"}
  /\ LET completed == now >= EndTime[e] IN
     IF ~urlValid[e] \/ ~reachable
     THEN /\ statusRet' = [statusRet EXCEPT ![e] = StatusUnreachable(completed)]
          /\ hist' = [hist EXCEPT ![e] = Observe(@, "none", completed)]
          /\ UNCHANGED <<ThresholdExceeded, MaxObserved>>
     ELSE \E used \in UsedSamples, max \in MaxSamples :
          LET violation == PercentExceeded(used, max, MaxMemoryPercent[e])
                           \/ BytesExceeded(used, MaxMemoryBytes[e])
              exceeded == ThresholdExceeded[e] \/ violation
          IN
          /\ MaxObserved' = [MaxObserved EXCEPT ![e] = IF used > @ THEN used ELSE @]
          /\ ThresholdExceeded' = [ThresholdExceeded EXCEPT ![e] = exceeded]
          /\ hist' = [hist EXCEPT ![e] = Observe(@, SampleClass(violation), completed)]
          /\ statusRet' = [statusRet EXCEPT ![e] =
               StatusSampled(completed, exceeded, violation)]
  /\ UNCHANGED <<notMC, MaxMemoryPercent, MaxMemoryBytes, kind, active, request,
                 signalReceived, stateOf, ops, backoff, now, reachable, phase,
                 urlValid, EndTime, startRet, spc, stopRet, targetKeys,
                 MaxLatencyMs, TotalPings, FailedPings>>

MCNext ==
  \/ \E e \in Execs : MCPrepare(e)
  \/ \E e \in Execs : MCStart(e)
  \/ \E e \in Execs : MCStatus(e)

\* the latencies, in milliseconds, a PING may take
LatencySamples == {1, 200, PingTimeoutMs}

\* client.Ping(pingCtx) under context.WithTimeout(ctx, 5*time.Second)
\* returns an error if the target does not answer within the timeout
PingFails(latencyMs) == ~reachable \/ latencyMs >= PingTimeoutMs

\* latencyCheck.Prepare
LCPrepare(e) ==
  /\ kind = "latency"
  /\ e \in active
  /\ phase[e] = "unprepared"
  /\ \E hasURL \in BOOLEAN, d \in 0..MaxDuration, v \in BOOLEAN :
       /\ request' = [request EXCEPT ![e] =
                        [hasURL |-> hasURL, required |-> {}]]
       /\ IF MissingRequired(hasURL, {})
          THEN /\ phase' = [phase EXCEPT ![e] = "prepareFailed"]
               /\ UNCHANGED <<EndTime, urlValid, MaxLatencyMs>>
          ELSE /\ phase' = [phase EXCEPT ![e] = "prepared"]
               /\ EndTime' = [EndTime EXCEPT ![e] = now + d]
               /\ urlValid' = [urlValid EXCEPT ![e] = v]
               /\ MaxLatencyMs' = [MaxLatencyMs EXCEPT ![e] = 100]
  /\ ThresholdExceeded' = [ThresholdExceeded EXCEPT ![e] = FALSE]
  /\ MaxObserved' = [MaxObserved EXCEPT ![e] = 0]
  /\ TotalPings' = [TotalPings EXCEPT ![e] = 0]
  /\ FailedPings' = [FailedPings EXCEPT ![e] = 0]
  /\ ClearStatus
  /\ UNCHANGED <<notMC, kind, active, signalReceived, stateOf, ops, backoff,
                 now, reachable, startRet, spc, stopRet, targetKeys,
                 MaxMemoryPercent, MaxMemoryBytes, hist>>

\* latencyCheck.Start: client, ping
LCStart(e) ==
  /\ kind = "latency"
  /\ phase[e] = "prepared"
  /\ IF ~ProbePassed(e)
     THEN /\ startRet' = [startRet EXCEPT ![e] = AfterPing(e, StartError(ProbeFailure(e)))]
          /\ phase' = [phase EXCEPT ![e] = "startFailed"]
     ELSE /\ startRet' = [startRet EXCEPT ![e] = AfterPing(e, StartOK)]
          /\ phase' = [phase EXCEPT ![e] = "running"]
  /\ ClearStatus
  /\ UNCHANGED <<notMC, mcVars, kind, active, request, signalReceived, stateOf,
                 ops, backoff, now, reachable, urlValid, EndTime, spc, stopRet,
                 targetKeys>>

\* latencyCheck.Status: one timed PING against the threshold
LCStatus(e) ==
  /\ kind = "latency"
  /\ phase[e] \in {"prepared", "running", "startFailed"}
  /\ TotalPings[e] < MaxPings /\ FailedPings[e] < MaxPings
  /\ LET completed == now >= EndTime[e] IN
     IF ~urlValid[e]
     THEN /\ FailedPings' = [FailedPings EXCEPT ![e] = @ + 1]
          /\ statusRet' = [statusRet EXCEPT ![e] = StatusUnreachable(completed)]
          /\ hist' = [hist EXCEPT ![e] = Observe(@, "none", completed)]
          /\ UNCHANGED <<TotalPings, ThresholdExceeded, MaxObserved>>
     ELSE \E latencyMs \in LatencySamples :
          LET violation == latencyMs > MaxLatencyMs[e]
              exceeded == ThresholdExceeded[e] \/ violation
          IN
          /\ TotalPings' = [TotalPings EXCEPT ![e] = @ + 1]
          /\ IF PingFails(latencyMs)
             THEN /\ FailedPings' = [FailedPings EXCEPT ![e] = @ + 1]
                  /\ statusRet' = [statusRet EXCEPT ![e] =
                       [NoStatus EXCEPT !.called = TRUE, !.completed = completed,
                                        !.reach = reachable, !.warn = TRUE,
                                        !.violation = reachable]]
                  /\ hist' = [hist EXCEPT ![e] = Observe(@,
                       IF reachable THEN "violating" ELSE "none", completed)]
                  /\ UNCHANGED <<ThresholdExceeded, MaxObserved>>
             ELSE /\ MaxObserved' = [MaxObserved EXCEPT ![e] =
                       IF latencyMs > @ THEN latencyMs ELSE @]
                  /\ ThresholdExceeded' = [ThresholdExceeded EXCEPT ![e] = exceeded]
                  /\ hist' = [hist EXCEPT ![e] =
                       Observe(@, SampleClass(violation), completed)]
                  /\ statusRet' = [statusRet EXCEPT ![e] =
                       StatusSampled(completed, exceeded, violation)]
                  /\ UNCHANGED FailedPings
  /\ UNCHANGED <<notMC, MaxMemoryPercent, MaxMemoryBytes, MaxLatencyMs, kind,
                 active, request, signalReceived, stateOf, ops, backoff, now,
                 reachable, phase, urlValid, EndTime, startRet, spc, stopRet,
                 targetKeys>>

LCNext ==
  \/ \E e \in Execs : LCPrepare(e)
  \/ \E e \in Execs : LCStart(e)
  \/ \E e \in Execs : LCStatus(e)

\* ---------------------------------------------------------------- key delete
\* SCAN MATCH pattern: the glob "*" and a key's own name
Matches(pattern, k) == pattern = "cache:*" \/ pattern = k

\* a limit that never applies
LimitedNever(maxKeys, n) == FALSE

\* state.MaxKeys > 0 && len(keys) >= state.MaxKeys
Limited(maxKeys, n) == maxKeys > 0 /\ n >= maxKeys

\* the results of the SCAN loop: the keys present that match; with
\* MaxKeys > 0 and at least MaxKeys of them found, the first MaxKeys in the
\* order SCAN returned them, which is any order
KeysToDelete(e) ==
  LET found == {k \in DbKeys : db[k] # NoValue /\ Matches(Pattern[e], k)}
  IN IF Limited(MaxKeys[e], Cardinality(found))
     THEN {ks \in SUBSET found : Cardinality(ks) = MaxKeys[e]}
     ELSE {found}

\* the backup loop: client.Get succeeds for the keys that hold a string
Backup(ks) ==
  LET strings == {k \in ks : db[k].type = "string"}
  IN [k \in strings |-> db[k].val]

\* the restore loop: client.Set(key, value, 0) for each entry of BackupData
Restore(d, backup) ==
  [k \in DbKeys |-> IF k \in DOMAIN backup
                     THEN [type |-> "string", val |-> backup[k]] ELSE d[k]]

\* keyDeleteAttack.Prepare
KDPrepare(e) ==
  /\ kind = "keydelete"
  /\ e \in active
  /\ phase[e] = "unprepared"
  /\ \E hasURL \in BOOLEAN, d \in 0..MaxDuration, v \in BOOLEAN,
        pattern \in {"", "cache:a", "cache:*"}, maxKeys \in {0, 1},
        restore \in BOOLEAN :
       /\ request' = [request EXCEPT ![e] =
                        [hasURL |-> hasURL, required |-> {pattern}]]
       /\ IF MissingRequired(hasURL, {pattern})
          THEN /\ phase' = [phase EXCEPT ![e] = "prepareFailed"]
               /\ UNCHANGED <<EndTime, urlValid, Pattern, MaxKeys,
                              RestoreOnStop>>
          ELSE /\ phase' = [phase EXCEPT ![e] = "prepared"]
               /\ EndTime' = [EndTime EXCEPT ![e] = now + d]
               /\ urlValid' = [urlValid EXCEPT ![e] = v]
               /\ Pattern' = [Pattern EXCEPT ![e] = pattern]
               /\ MaxKeys' = [MaxKeys EXCEPT ![e] = maxKeys]
               /\ RestoreOnStop' = [RestoreOnStop EXCEPT ![e] = restore]
  /\ DeletedKeys' = [DeletedKeys EXCEPT ![e] = {}]
  /\ BackupData' = [BackupData EXCEPT ![e] = <<>>]
  /\ ClearStatus
  /\ UNCHANGED <<notKD, kind, active, signalReceived, stateOf, ops, backoff,
                 now, reachable, startRet, spc, stopRet, targetKeys, db,
                 dbBefore>>

\* keyDeleteAttack.Start: client, ping, SCAN, backup of the string values if
\* RestoreOnStop, DEL of every key found
KDStart(e) ==
  /\ kind = "keydelete"
  /\ phase[e] = "prepared"
  /\ dbBefore' = [dbBefore EXCEPT ![e] = db]
  /\ IF ~ProbePassed(e)
     THEN /\ startRet' = [startRet EXCEPT ![e] = AfterPing(e, StartError(ProbeFailure(e)))]
          /\ phase' = [phase EXCEPT ![e] = "startFailed"]
          /\ UNCHANGED <<db, DeletedKeys, BackupData>>
     ELSE \E ks \in KeysToDelete(e) :
          /\ phase' = [phase EXCEPT ![e] = "running"]
          /\ IF ks = {}
             THEN /\ startRet' = [startRet EXCEPT ![e] =
                       AfterPing(e, [StartOK EXCEPT !.level = "warn"])]
                  /\ UNCHANGED <<db, DeletedKeys, BackupData>>
             ELSE /\ BackupData' = [BackupData EXCEPT ![e] =
                       IF RestoreOnStop[e] THEN Backup(ks) ELSE <<>>]
                  /\ db' = [k \in DbKeys |-> IF k \in ks THEN NoValue ELSE db[k]]
                  /\ DeletedKeys' = [DeletedKeys EXCEPT ![e] = ks]
                  /\ startRet' = [startRet EXCEPT ![e] = AfterPing(e, StartOK)]
  /\ ClearStatus
  /\ UNCHANGED <<notKD, kind, active, request, signalReceived, stateOf, ops,
                 backoff, now, reachable, urlValid, EndTime, spc, stopRet,
                 targetKeys, Pattern, MaxKeys, RestoreOnStop>>

\* keyDeleteAttack.Status
KDStatus(e) ==
  /\ kind = "keydelete"
  /\ phase[e] \in {"prepared", "running", "startFailed"}
  /\ statusRet' = [statusRet EXCEPT ![e] =
        [NoStatus EXCEPT !.called = TRUE, !.reach = reachable,
                         !.completed = now >= EndTime[e],
                         !.deleted = Cardinality(DeletedKeys[e])]]
  /\ UNCHANGED <<notKD, kdVars, kind, active, request, signalReceived, stateOf,
                 ops, backoff, now, reachable, phase, urlValid, EndTime,
                 startRet, spc, stopRet, targetKeys>>

\* keyDeleteAttack.Stop: nothing to do without RestoreOnStop or a backup;
\* else client, SET of every entry of BackupData, failures only logged
KDStop(e, n) ==
  /\ kind = "keydelete"
  /\ MayBeginStop(e, n)
  /\ IF ~RestoreOnStop[e] \/ DOMAIN BackupData[e] = {}
     THEN /\ stopRet' = [stopRet EXCEPT ![e][n] =
               [NoStop EXCEPT !.level = "info", !.reach = reachable,
                              !.deleted = Cardinality(DeletedKeys[e])]]
          /\ UNCHANGED db
     ELSE IF ~urlValid[e]
     THEN /\ stopRet' = [stopRet EXCEPT ![e][n] =
               [NoStop EXCEPT !.err = TRUE, !.cleanupFailed = TRUE]]
          /\ UNCHANGED db
     ELSE /\ db' = IF reachable THEN Restore(db, BackupData[e]) ELSE db
          /\ stopRet' = [stopRet EXCEPT ![e][n] =
               [NoStop EXCEPT !.level = "info", !.reach = reachable,
                              !.cleanupFailed = ~reachable,
                              !.deleted = Cardinality(DeletedKeys[e])]]
  /\ spc' = [spc EXCEPT ![e][n] = "returned"]
  /\ ClearStatus
  /\ UNCHANGED <<notKD, kind, active, request, signalReceived, stateOf, ops,
                 backoff, now, reachable, phase, urlValid, EndTime, startRet,
                 targetKeys, Pattern, MaxKeys, RestoreOnStop, DeletedKeys,
                 BackupData, dbBefore>>

KDNext ==
  \/ \E e \in Execs : KDPrepare(e)
  \/ \E e \in Execs : KDStart(e)
  \/ \E e \in Execs : KDStatus(e)
  \/ \E e \in Execs, n \in Callers : KDStop(e, n)

\* ---------------------------------------------------------------- Next
\* ---------------------------------------------------------------- cache expiration
\* cacheExpirationAttack.Prepare
CEPrepare(e) ==
  /\ kind = "expiration"
  /\ e \in active
  /\ phase[e] = "unprepared"
  /\ \E hasURL \in BOOLEAN, d \in 0..MaxDuration, v \in BOOLEAN,
        pattern \in {"", "cache:*"}, ttl \in {0, 2}, maxKeys \in {0, 1},
        restore \in BOOLEAN :
       /\ request' = [request EXCEPT ![e] =
                        [hasURL |-> hasURL, required |-> {pattern}]]
       /\ IF MissingRequired(hasURL, {pattern})
          THEN /\ phase' = [phase EXCEPT ![e] = "prepareFailed"]
               /\ UNCHANGED <<EndTime, urlValid, Pattern, MaxKeys,
                              RestoreOnStop, TTLSeconds>>
          ELSE /\ phase' = [phase EXCEPT ![e] = "prepared"]
               /\ EndTime' = [EndTime EXCEPT ![e] = now + d]
               /\ urlValid' = [urlValid EXCEPT ![e] = v]
               /\ Pattern' = [Pattern EXCEPT ![e] = pattern]
               /\ TTLSeconds' = [TTLSeconds EXCEPT ![e] = ClampMin1(ttl)]
               /\ MaxKeys' = [MaxKeys EXCEPT ![e] = maxKeys]
               /\ RestoreOnStop' = [RestoreOnStop EXCEPT ![e] = restore]
  /\ AffectedKeys' = [AffectedKeys EXCEPT ![e] = {}]
  /\ SkippedNonString' = [SkippedNonString EXCEPT ![e] = 0]
  /\ ClearStatus
  /\ UNCHANGED <<bkVars, cpVars, mfVars, mmVars, mcVars, keyTTL, kind, active,
                 signalReceived, stateOf, ops, backoff, now, reachable,
                 startRet, spc, stopRet, targetKeys, db, DeletedKeys,
                 BackupData, dbBefore, pzVars, cxVars, lkVars>>

\* the filter loop of Start over the keys SCAN found, in the order SCAN
\* returned them (any order): the string keys are kept until MaxKeys of them
\* are found, the keys of another type seen until then are counted.  The
\* result is the set of pairs <<stringKeys, skippedNonString>>
StringKeys(e) ==
  LET found == {k \in DbKeys : db[k] # NoValue /\ Matches(Pattern[e], k)}
      strings == {k \in found : db[k].type = "string"}
      others == found \ strings
  IN IF Limited(MaxKeys[e], Cardinality(strings))
     THEN {ks \in SUBSET strings : Cardinality(ks) = MaxKeys[e]}
            \X (0..Cardinality(others))
     ELSE {<<strings, Cardinality(others)>>}

\* the backup Start takes of a key: its value and its TTL
KeyBackups(ks) ==
  [k \in ks |-> [Value |-> db[k].val, TTLSeconds |-> keyTTL[k]]]

\* cacheExpirationAttack.Start: client, ping, SCAN, the filter loop, then
\* for every string key kept the backup if RestoreOnStop and EXPIRE
CEStart(e) ==
  /\ kind = "expiration"
  /\ phase[e] = "prepared"
  /\ IF ~ProbePassed(e)
     THEN /\ startRet' = [startRet EXCEPT ![e] =
               AfterPing(e, StartError(ProbeFailure(e)))]
          /\ phase' = [phase EXCEPT ![e] = "startFailed"]
          /\ UNCHANGED <<keyTTL, AffectedKeys, SkippedNonString, BackupData>>
     ELSE \E r \in StringKeys(e) :
          LET found == {k \in DbKeys : db[k] # NoValue /\ Matches(Pattern[e], k)}
              ks == r[1]
          IN
          /\ phase' = [phase EXCEPT ![e] = "running"]
          /\ IF found = {}
             THEN /\ startRet' = [startRet EXCEPT ![e] =
                       AfterPing(e, [StartOK EXCEPT !.level = "warn"])]
                  /\ UNCHANGED <<keyTTL, AffectedKeys, SkippedNonString,
                                 BackupData>>
             ELSE IF ks = {}
             THEN /\ SkippedNonString' = [SkippedNonString EXCEPT ![e] = r[2]]
                  /\ startRet' = [startRet EXCEPT ![e] =
                       AfterPing(e, [StartOK EXCEPT !.level = "warn"])]
                  /\ UNCHANGED <<keyTTL, AffectedKeys, BackupData>>
             ELSE /\ SkippedNonString' = [SkippedNonString EXCEPT ![e] = r[2]]
                  /\ BackupData' = [BackupData EXCEPT ![e] =
                       IF RestoreOnStop[e] THEN KeyBackups(ks) ELSE @]
                  /\ keyTTL' = [k \in DbKeys |->
                       IF k \in ks THEN TTLSeconds[e] ELSE keyTTL[k]]
                  /\ AffectedKeys' = [AffectedKeys EXCEPT ![e] = ks]
                  /\ startRet' = [startRet EXCEPT ![e] = AfterPing(e, StartOK)]
  /\ ClearStatus
  /\ UNCHANGED <<bkVars, cpVars, mfVars, mmVars, mcVars, kind, active, request,
                 signalReceived, stateOf, ops, backoff, now, reachable,
                 urlValid, EndTime, spc, stopRet, targetKeys, db, Pattern,
                 MaxKeys, RestoreOnStop, DeletedKeys, dbBefore, TTLSeconds,
                 pzVars, cxVars, lkVars>>

CENext ==
  \/ \E e \in Execs : CEPrepare(e)
  \/ \E e \in Execs : CEStart(e)

\* ---------------------------------------------------------------- client pause
\* if pauseMode != "ALL" && pauseMode != "WRITE" { pauseMode = "ALL" }
NormalPauseMode(m) == IF m \notin {"ALL", "WRITE"} THEN "ALL" ELSE m

\* clientPauseAttack.Prepare
PZPrepare(e) ==
  /\ kind = "clientpause"
  /\ e \in active
  /\ phase[e] = "unprepared"
  /\ \E hasURL \in BOOLEAN, d \in 0..MaxDuration, v \in BOOLEAN,
        m \in {"ALL", "WRITE", ""} :
       /\ request' = [request EXCEPT ![e] =
                        [hasURL |-> hasURL, required |-> {}]]
       /\ IF MissingRequired(hasURL, {})
          THEN /\ phase' = [phase EXCEPT ![e] = "prepareFailed"]
               /\ UNCHANGED <<EndTime, urlValid, PauseMode>>
          ELSE /\ phase' = [phase EXCEPT ![e] = "prepared"]
               /\ EndTime' = [EndTime EXCEPT ![e] = now + d]
               /\ urlValid' = [urlValid EXCEPT ![e] = v]
               /\ PauseMode' = [PauseMode EXCEPT ![e] = NormalPauseMode(m)]
  /\ ClearStatus
  /\ UNCHANGED <<bkVars, cpVars, mfVars, mmVars, mcVars, kdVars, ceVars, kind,
                 active, signalReceived, stateOf, ops, backoff, now, reachable,
                 startRet, spc, stopRet, targetKeys, clientPause, cxVars,
                 lkVars>>

\* clientPauseAttack.Start: client, ping, the remaining time in ms, which
\* has to be positive, CLIENT PAUSE
PZStart(e) ==
  /\ kind = "clientpause"
  /\ phase[e] = "prepared"
  /\ LET pauseDurationMs == (EndTime[e] - now) * 1000 IN
     IF ~ProbePassed(e)
     THEN /\ startRet' = [startRet EXCEPT ![e] =
                            AfterPing(e, StartError(ProbeFailure(e)))]
          /\ phase' = [phase EXCEPT ![e] = "startFailed"]
          /\ UNCHANGED clientPause
     ELSE IF pauseDurationMs <= 0
     THEN /\ startRet' = [startRet EXCEPT ![e] =
                            AfterPing(e, StartError("duration"))]
          /\ phase' = [phase EXCEPT ![e] = "startFailed"]
          /\ UNCHANGED clientPause
     ELSE /\ clientPause' = [mode |-> PauseMode[e], until |-> EndTime[e]]
          /\ startRet' = [startRet EXCEPT ![e] = AfterPing(e, StartOK)]
          /\ phase' = [phase EXCEPT ![e] = "running"]
  /\ ClearStatus
  /\ UNCHANGED <<bkVars, cpVars, mfVars, mmVars, mcVars, kdVars, ceVars, kind,
                 active, request, signalReceived, stateOf, ops, backoff, now,
                 reachable, urlValid, EndTime, spc, stopRet, targetKeys,
                 PauseMode, cxVars, lkVars>>

\* clientPauseAttack.Status: completed and the seconds remaining; the target
\* is not asked
PZStatus(e) ==
  /\ kind = "clientpause"
  /\ phase[e] \in {"prepared", "running", "startFailed"}
  /\ statusRet' = [statusRet EXCEPT ![e] =
       [NoStatus EXCEPT !.called = TRUE, !.completed = now >= EndTime[e]]]
  /\ UNCHANGED <<commonVars, bkVars, cpVars, mfVars, mmVars, mcVars, kdVars,
                 ceVars, pzVars, cxVars, lkVars>>

PZNext ==
  \/ \E e \in Execs : PZPrepare(e)
  \/ \E e \in Execs : PZStart(e)
  \/ \E e \in Execs : PZStatus(e)

\* ---------------------------------------------------------------- connection exhaustion
\* the i-th connection the Start call of execution e opens
ConnId(e, i) == <<e, i>>

\* Stop's search: the registry keys that begin with state.RedisURL; the
\* attack keys are RedisURL-UnixNano and the executions share the target
MatchingKeys(reg) == {k \in Execs : reg[k].present}

\* connectionExhaustionAttack.Prepare
CXPrepare(e) ==
  /\ kind = "connexhaust"
  /\ e \in active
  /\ phase[e] = "unprepared"
  /\ \E hasURL \in BOOLEAN, d \in 0..MaxDuration, v \in BOOLEAN,
        c \in 0..MaxConnections :
       /\ request' = [request EXCEPT ![e] = [hasURL |-> hasURL, required |-> {}]]
       /\ IF MissingRequired(hasURL, {})
          THEN /\ phase' = [phase EXCEPT ![e] = "prepareFailed"]
               /\ UNCHANGED <<EndTime, urlValid, NumConnections>>
          ELSE /\ phase' = [phase EXCEPT ![e] = "prepared"]
               /\ EndTime' = [EndTime EXCEPT ![e] = now + d]
               /\ urlValid' = [urlValid EXCEPT ![e] = v]
               /\ NumConnections' = [NumConnections EXCEPT ![e] = c]
  /\ ClearStatus
  /\ UNCHANGED <<notCX, kind, active, signalReceived, stateOf, ops, backoff,
                 now, reachable, startRet, spc, stopRet, targetKeys,
                 ConnectionCount, activeConnections, openConns, kapc,
                 stopClosed>>

\* connectionExhaustionAttack.Start: test client and ping, open the
\* connections (each ping may fail, the target limits its clients), store
\* them under the attack key, fail if none was opened, else go keepAlive
CXStart(e) ==
  /\ kind = "connexhaust"
  /\ phase[e] = "prepared"
  /\ IF ~ProbePassed(e)
     THEN /\ startRet' = [startRet EXCEPT ![e] =
               AfterPing(e, StartError(ProbeFailure(e)))]
          /\ phase' = [phase EXCEPT ![e] = "startFailed"]
          /\ UNCHANGED <<ConnectionCount, activeConnections, openConns, kapc>>
     ELSE \E successCount \in 0..NumConnections[e] :
            LET connections == {ConnId(e, i) : i \in 1..successCount} IN
            /\ activeConnections' = [activeConnections EXCEPT ![e] =
                 [present |-> TRUE, conns |-> connections]]
            /\ openConns' = openConns \cup connections
            /\ ConnectionCount' = [ConnectionCount EXCEPT ![e] = successCount]
            /\ IF successCount = 0
               THEN /\ startRet' = [startRet EXCEPT ![e] =
                         AfterPing(e, [StartError("connections")
                                         EXCEPT !.level = "error"])]
                    /\ phase' = [phase EXCEPT ![e] = "startFailed"]
                    /\ UNCHANGED kapc
               ELSE /\ startRet' = [startRet EXCEPT ![e] = AfterPing(e, StartOK)]
                    /\ phase' = [phase EXCEPT ![e] = "running"]
                    /\ kapc' = [kapc EXCEPT ![e] = "ticking"]
  /\ ClearStatus
  /\ UNCHANGED <<notCX, kind, active, request, signalReceived, stateOf, ops,
                 backoff, now, reachable, urlValid, EndTime, spc, stopRet,
                 targetKeys, NumConnections, stopClosed>>

\* keepAlive, one tick of its ticker: return once the end time is reached,
\* else ping the connections the registry holds under the attack key
CXKeepAlive(e) ==
  /\ kind = "connexhaust"
  /\ kapc[e] = "ticking"
  /\ IF now >= EndTime[e]
     THEN /\ kapc' = [kapc EXCEPT ![e] = "exited"]
          /\ UNCHANGED ops
     ELSE /\ ops' = [ops EXCEPT ![e] =
               IF activeConnections[e].conns # {}
               THEN OpDone(@, reachable, FALSE) ELSE @]
          /\ UNCHANGED kapc
  /\ UNCHANGED backoff
  /\ ClearStatus
  /\ UNCHANGED <<notCX, kind, active, request, signalReceived, stateOf, now,
                 reachable, phase, urlValid, EndTime, startRet, spc, stopRet,
                 targetKeys, NumConnections, ConnectionCount, activeConnections,
                 openConns, stopClosed>>

\* connectionExhaustionAttack.Status
CXStatus(e) ==
  /\ kind = "connexhaust"
  /\ phase[e] \in {"prepared", "running", "startFailed"}
  /\ statusRet' = [statusRet EXCEPT ![e] =
       [NoStatus EXCEPT !.called = TRUE, !.reach = ProbePassed(e),
                        !.completed = now >= EndTime[e]]]
  /\ UNCHANGED <<commonVars, notCX, cxVars>>

\* connectionExhaustionAttack.Stop: take the first registry key that begins
\* with the URL (the order of a map iteration is not fixed), delete the
\* entry and close its connections
CXStop(e, n) ==
  /\ kind = "connexhaust"
  /\ MayBeginStop(e, n)
  /\ IF MatchingKeys(activeConnections) = {}
     THEN UNCHANGED <<activeConnections, openConns, stopClosed>>
     ELSE \E attackKey \in MatchingKeys(activeConnections) :
            LET connections == activeConnections[attackKey].conns IN
            /\ activeConnections' =
                 [activeConnections EXCEPT ![attackKey] = NoConnections]
            /\ openConns' = openConns \ connections
            /\ stopClosed' = [stopClosed EXCEPT ![e] = @ \cup connections]
  /\ stopRet' = [stopRet EXCEPT ![e][n] =
       [NoStop EXCEPT !.level = "info", !.reach = reachable]]
  /\ spc' = [spc EXCEPT ![e][n] = "returned"]
  /\ ClearStatus
  /\ UNCHANGED <<notCX, kind, active, request, signalReceived, stateOf, ops,
                 backoff, now, reachable, phase, urlValid, EndTime, startRet,
                 targetKeys, NumConnections, ConnectionCount, kapc>>

CXNext ==
  \/ \E e \in Execs : CXPrepare(e)
  \/ \E e \in Execs : CXStart(e)
  \/ \E e \in Execs : CXKeepAlive(e)
  \/ \E e \in Execs : CXStatus(e)
  \/ \E e \in Execs, n \in Callers : CXStop(e, n)

Next ==
  \/ Tick
  \/ TargetFlip
  \/ BKNext
  \/ CPNext
  \/ MFNext
  \/ MMNext
  \/ MCNext
  \/ LCNext
  \/ KDNext
  \/ CENext
  \/ PZNext
  \/ CXNext

Spec == Init /\ [][Next]_vars

\* two concurrent executions of a registry-based attack against a target
\* that stays reachable
InitTwo ==
  /\ kind \in {"bigkey", "penetration"}
  /\ active = Execs
  /\ InitState

NextTwo ==
  \/ BKNext
  \/ CPNext

SpecTwo == InitTwo /\ [][NextTwo]_vars

\* the controller hands the state of a started execution e to a second Start
\* call, f: the call works on e's ExecutionId (AttackKey), key prefix,
\* end time and parameters
StartAgain(e, f) ==
  /\ kind \in {"bigkey", "penetration"}
  /\ phase[e] = "running"
  /\ f \notin active
  /\ phase[f] = "unprepared"
  /\ stateOf' = [stateOf EXCEPT ![f] = stateOf[e]]
  /\ phase' = [phase EXCEPT ![f] = "prepared"]
  /\ urlValid' = [urlValid EXCEPT ![f] = urlValid[e]]
  /\ EndTime' = [EndTime EXCEPT ![f] = EndTime[e]]
  /\ NumKeys' = [NumKeys EXCEPT ![f] = NumKeys[e]]
  /\ KeySize' = [KeySize EXCEPT ![f] = KeySize[e]]
  /\ Concurrency' = [Concurrency EXCEPT ![f] = Concurrency[e]]
  /\ ClearStatus
  /\ UNCHANGED <<kind, active, request, signalReceived, ops, backoff, now,
                 reachable, startRet, spc, stopRet, targetKeys, runningAttacks,
                 stats, wpc, wi, wCycle, wCreated, wClient,
                 cachePenetrationCancels, cachePenetrationCounts, ctxCancelled,
                 counter, ppc, keyCounter, pClient, mfVars, mmVars, mcVars,
                 kdVars, ceVars, pzVars, cxVars, lkVars>>

\* one execution of a registry-based attack whose controller repeats Start
InitRestart ==
  /\ kind \in {"bigkey", "penetration"}
  /\ active = {1}
  /\ InitState

NextRestart ==
  \/ BKNext
  \/ CPNext
  \/ \E e \in Execs, f \in Execs : StartAgain(e, f)

SpecRestart == InitRestart /\ [][NextRestart]_vars


\* main: ctx of signal.NotifyContext is cancelled by the signal; the ctx is
\* handed to the two discoveries, nothing reads the registries
Shutdown ==
  /\ ~signalReceived
  /\ signalReceived' = TRUE
  /\ ClearStatus
  /\ UNCHANGED <<kind, active, request, stateOf, ops, backoff, now, reachable,
                 phase, urlValid, EndTime, startRet, spc, stopRet, targetKeys,
                 bkVars, cpVars, mfVars, mmVars, mcVars, kdVars, ceVars, pzVars,
                 cxVars, lkVars>>

\* one execution of a registry-based attack in a process that may be
\* signalled to shut down
InitShutdown ==
  /\ kind \in {"bigkey", "penetration"}
  /\ active = {1}
  /\ InitState

NextShutdown ==
  \/ BKNext
  \/ CPNext
  \/ Shutdown

SpecShutdown == InitShutdown /\ [][NextShutdown]_vars

\* two concurrent connection exhaustion executions against one target that
\* stays reachable
InitConn ==
  /\ kind = "connexhaust"
  /\ active = Execs
  /\ InitState

NextConn ==
  \/ Tick
  \/ CXNext

SpecConn == InitConn /\ [][NextConn]_vars

\* two maxmemory limit executions against the same target
InitLimits ==
  /\ kind = "maxmemory"
  /\ active = Execs
  /\ InitState

NextLimits == MMNext

SpecLimits == InitLimits /\ [][NextLimits]_vars

\* ---------------------------------------------------------------- properties
\* a worker of execution e passes the check at the head of its loop and
\* begins a tick
TickBegins(e) ==
  \/ wpc[e] = "top" /\ wpc'[e] = "keyloop"
  \/ \E w \in Workers : ppc[e][w] = "loop" /\ ppc'[e][w] = "get"
  \/ mfpc[e] = "loop" /\ mfpc'[e] = "set"

NoStopCalled(e) == \A n \in Callers : spc[e][n] = "idle"
StopReturned(e) == \E n \in Callers : spc[e][n] = "returned"

\* the cancellation signal of execution e is raised
Signalled(e) == stats[e].closed \/ ctxCancelled[e]

\* C1: the worker of an execution that was never stopped begins no tick once
\* the current time has reached the execution's EndTime
C1_NoTickAfterDeadline ==
  [][\A e \in Execs : (NoStopCalled(e) /\ TickBegins(e)) => now < EndTime[e]]_vars

\* C2: the cancellation signal stays raised once raised, and a worker begins
\* no tick after it was raised, however late it checks
C2_NoTickAfterSignal ==
  [][\A e \in Execs : Signalled(e) => (Signalled(e)' /\ ~TickBegins(e))]_vars

\* C2 witness: a worker that was in a cycle when the signal was raised has
\* observed it and returned
C2_Witness ==
  \E e \in Execs : /\ Signalled(e)
                   /\ \/ wpc[e] = "done" /\ stats[e].totalCreated > 0
                      \/ \E w \in Workers : ppc[e][w] = "done" /\ counter[e] > 0

\* C3: after a big-key Stop returned whose cleanup reached the target, no key
\* with the execution's prefix is on the target
C3_NoPrefixKeyAfterStop ==
  \A e \in Execs, n \in Callers :
    (kind = "bigkey" /\ spc[e][n] = "returned" /\ stopRet[e][n].reach)
      => KeysWithPrefix(e, targetKeys) = {}

\* C4: no Stop returns an error, and a Stop whose cleanup or restore failed
\* reports it as a warning
C4_StopNeverErrors ==
  \A e \in Execs, n \in Callers :
    spc[e][n] = "returned"
      => /\ ~stopRet[e][n].err
         /\ stopRet[e][n].cleanupFailed => stopRet[e][n].level = "warn"

\* C5: a Stop made after an earlier Stop of the same big-key or penetration
\* execution returned gives a result without error, raises no signal again
\* (the stop channel is closed at most once) and cleans up what is left
C5_StopIdempotent ==
  \A e \in Execs, n \in Callers :
    (kind \in {"bigkey", "penetration"} /\ n > 1 /\ spc[e][n] = "returned")
      => /\ ~stopRet[e][n].err
         /\ stopRet[e][n].level \in {"info", "warn"}
         /\ ~stopRet[e][n].signalled
         /\ stats[e].closes <= 1

\* C5 witness: two Stop calls of a started execution have returned, the first
\* of which raised the signal
C5_Witness ==
  \E e \in Execs : /\ phase[e] = "running"
                   /\ spc[e][1] = "returned" /\ stopRet[e][1].signalled
                   /\ spc[e][2] = "returned"

\* the registry entry, counters and signal of execution f
EngineState(f) ==
  <<runningAttacks[ExecutionId(f)], stats[f], wpc[f],
    cachePenetrationCancels[AttackKey(f)], cachePenetrationCounts[AttackKey(f)],
    ctxCancelled[f], counter[f], ppc[f]>>

\* a started execution that was not stopped has its own registry entry
OwnEntry(e) ==
  (phase[e] = "running" /\ NoStopCalled(e))
    => \/ kind = "bigkey" /\ runningAttacks[ExecutionId(e)] = e
       \/ kind = "penetration" /\ cachePenetrationCancels[AttackKey(e)] = e
                               /\ cachePenetrationCounts[AttackKey(e)] = e

\* C6: concurrent executions each have their own registry entry, and no step
\* of a Stop of one execution changes the entry, the counters, the signal or
\* the workers of another
C6_StopLeavesOthers ==
  [][/\ \A e \in Execs : OwnEntry(e)'
     /\ \A e \in Execs : spc'[e] # spc[e]
          => \A f \in Execs \ {e} : EngineState(f)' = EngineState(f)]_vars

\* C6 witness: one of two started executions was stopped while the other,
\* with counted work, is registered and not signalled
C6_Witness ==
  \E e \in Execs, f \in Execs :
    /\ e # f
    /\ phase[e] = "running" /\ spc[e][1] = "returned"
    /\ phase[f] = "running" /\ NoStopCalled(f) /\ ~Signalled(f)
    /\ stats[f].totalCreated + counter[f] > 0

\* no worker of execution e was launched and no registry holds its key
NothingLaunched(e) ==
  /\ wpc[e] = "none" /\ mfpc[e] = "none"
  /\ \A w \in Workers : ppc[e][w] = "none"
  /\ runningAttacks[ExecutionId(e)] = NoEntry
  /\ cachePenetrationCancels[AttackKey(e)] = NoEntry
  /\ cachePenetrationCounts[AttackKey(e)] = NoEntry

ZeroCounters(r) ==
  r.cycles = 0 /\ r.created = 0 /\ r.deleted = 0 /\ r.requests = 0

\* C7: when the ping of Start fails, Start returns an error, no worker is
\* launched and no registry entry made; a later Status or Stop returns
\* without error and reports zero counters
C7_FailedProbe ==
  \A e \in Execs :
    startRet[e].pinged = "failed"
      => /\ startRet[e].err /\ startRet[e].cause = "ping"
         /\ phase[e] = "startFailed"
         /\ NothingLaunched(e)
         /\ statusRet[e].called => (~statusRet[e].err /\ ZeroCounters(statusRet[e]))
         /\ \A n \in Callers :
               spc[e][n] = "returned"
                 => (~stopRet[e][n].err /\ ZeroCounters(stopRet[e][n]))

\* C7 witness: Start failed at the ping, then Status and Stop were called
C7_Witness ==
  \E e \in Execs : /\ startRet[e].pinged = "failed"
                   /\ statusRet[e].called
                   /\ spc[e][1] = "returned"

\* C8: a Status call returns a result and no error
C8_StatusNeverErrors ==
  \A e \in Execs : statusRet[e].called => ~statusRet[e].err

\* C8 witness: Status was called for a check while the target could not be
\* queried
C8_Witness ==
  \E e \in Execs : statusRet[e].called /\ statusRet[e].failed
                   /\ ~statusRet[e].reach /\ ~statusRet[e].completed

\* C9: once a Stop of an execution has returned, its worker begins no tick
C9_NoTickAfterStop ==
  [][\A e \in Execs : StopReturned(e) => ~TickBegins(e)]_vars

\* C10: after the Stop of a started maxmemory execution returned without
\* warning, maxmemory and maxmemory-policy are what they were before Start
C10_ConfigRestored ==
  \A e \in Execs, n \in Callers :
    (kind = "maxmemory" /\ phase[e] = "running" /\ spc[e][n] = "returned"
       /\ stopRet[e][n].level = "info" /\ ~stopRet[e][n].err)
      => cfg = cfgBefore[e]

\* C11: with RestoreOnStop, after Start and a returned Stop of a key-delete
\* execution every key Start deleted holds what it held before Start
C11_DeletedKeysRestored ==
  \A e \in Execs, n \in Callers :
    (kind = "keydelete" /\ RestoreOnStop[e] /\ phase[e] = "running"
       /\ spc[e][n] = "returned")
      => \A k \in DeletedKeys[e] : db[k] = dbBefore[e][k]

\* the execution is one of a threshold check whose Status has just returned
CheckStatus(e) == kind \in {"memcheck", "latency"} /\ statusRet[e].called

C13_RecoveredCheckPasses ==
  \A e \in Execs :
    (CheckStatus(e) /\ statusRet[e].completed /\ hist[e].completions = 1
       /\ statusRet[e].sampled /\ ~statusRet[e].violation
       /\ hist[e].violations = 1 /\ hist[e].seen = {"ok", "violating"})
      => ~statusRet[e].failed

\* C14: a check whose every Status call found the condition violated fails
\* in the first Status call that finds the deadline reached
C14_SustainedViolationFails ==
  \A e \in Execs :
    (CheckStatus(e) /\ statusRet[e].completed /\ hist[e].completions = 1
       /\ hist[e].seen = {"violating"})
      => statusRet[e].failed

\* a worker goroutine of execution e is running
WorkerActive(e) ==
  \/ wpc[e] \notin {"none", "done"}
  \/ mfpc[e] \notin {"none", "done"}
  \/ \E w \in Workers : ppc[e][w] \notin {"none", "done"}

\* the counters the Status call returned are the ones the worker's shared
\* data held, or for the list of created keys a length it had before
HeldValues(e) ==
  /\ kind = "bigkey" =>
       LET s == runningAttacks[ExecutionId(e)] IN
       s # NoEntry => /\ statusRet[e].cycles = stats[s].cycleCount
                      /\ statusRet[e].created = stats[s].totalCreated
                      /\ statusRet[e].deleted = stats[s].totalDeleted
  /\ kind = "penetration" =>
       LET c == cachePenetrationCounts[AttackKey(e)] IN
       c # NoEntry => statusRet[e].requests = counter[c]
  /\ kind = "memfill" => statusRet[e].created <= Cardinality(CreatedKeys[e])

\* C15: a Status call made while a worker is active returns counter values
\* the counters held, read under the lock (or atomically) that orders the
\* read with the worker's writes
C15_StatusReadsSynchronised ==
  \A e \in Execs :
    (statusRet[e].called /\ WorkerActive(e))
      => (HeldValues(e) /\ statusRet[e].synced)


\* the key of the state handed to call f is held by a live registry entry
Registered(f) ==
  \/ kind = "bigkey" /\ runningAttacks[ExecutionId(stateOf[f])] # NoEntry
  \/ kind = "penetration"
       /\ cachePenetrationCancels[AttackKey(stateOf[f])] # NoEntry

\* C16: a Start made while the execution's key is already registered returns
\* an error and leaves the registries and the workers as they were
C16_DuplicateStartFails ==
  [][\A f \in Execs :
       (phase[f] = "prepared" /\ phase'[f] # "prepared" /\ Registered(f))
         => /\ startRet'[f].err
            /\ UNCHANGED <<runningAttacks, cachePenetrationCancels,
                           cachePenetrationCounts, wpc, ppc>>]_vars


\* the worker of execution e is at a position of its loop or has returned
WorkerInLoop(e) ==
  /\ wpc[e] \in {"none", "top", "keyloop", "set", "hold", "pause", "done"}
  /\ mfpc[e] \in {"none", "init", "loop", "set", "done"}
  /\ \A w \in Workers : ppc[e][w] \in {"none", "init", "loop", "get", "done"}

\* C17: once a target operation of a worker has failed, the failure has been
\* recorded and the worker is still in its loop or has returned from it
C17_TickErrorsRecorded ==
  \A e \in Execs : ops[e].failed => (ops[e].logged /\ WorkerInLoop(e))

\* execution e reports no completed cycle, created key or counted request
ReportsZero(e) ==
  /\ statusRet[e].called
       => /\ statusRet[e].cycles = 0
          /\ statusRet[e].created = 0
          /\ statusRet[e].requests = 0
  /\ \A n \in Callers :
       spc[e][n] = "returned"
         => /\ stopRet[e][n].cycles = 0
            /\ stopRet[e][n].created = 0
            /\ stopRet[e][n].requests = 0

\* C18: while every target operation of an execution's workers has failed,
\* Status and Stop report 0 cycles, 0 keys created and 0 requests
C18_CountersStayZero ==
  \A e \in Execs : (ops[e].failed /\ ~ops[e].ok) => ReportsZero(e)


\* C19: in the step in which the shutdown signal arrives, the stop channel of
\* every registered big-key execution is closed and the context of every
\* registered cache-penetration execution is cancelled
C19_ShutdownCancelsAll ==
  [][(~signalReceived /\ signalReceived')
       => \A k \in Execs :
            /\ runningAttacks[k] # NoEntry
                 => stats'[runningAttacks[k]].closed
            /\ cachePenetrationCancels[k] # NoEntry
                 => ctxCancelled'[cachePenetrationCancels[k]]]_vars


\* C20: a Prepare whose request lacks the target address, or has an empty
\* value for a parameter the action requires (the pattern of key delete and
\* cache expiration, maxmemory of the maxmemory limit), returned an error
C20_PrepareRejectsMissing ==
  \A e \in Execs :
    (phase[e] # "unprepared"
       /\ (~request[e].hasURL \/ "" \in request[e].required))
      => phase[e] = "prepareFailed"

\* a key-delete, cache-expiration or maxmemory Prepare was refused for the
\* empty parameter alone
C20_Witness ==
  \E e \in Execs :
    /\ kind \in {"keydelete", "expiration", "maxmemory"}
    /\ phase[e] = "prepareFailed"
    /\ request[e].hasURL
    /\ "" \in request[e].required


\* C21: after a successful Prepare the clamped tunables are at least 1:
\* the concurrency of cache penetration, the key size in MB and the keys
\* per cycle of the big-key attack, the TTL of cache expiration
C21_ClampedAtLeastOne ==
  \A e \in Execs :
    phase[e] = "prepared"
      => /\ kind = "penetration" => Concurrency[e] >= 1
         /\ kind = "bigkey" => (NumKeys[e] >= 1 /\ KeySize[e] >= 1 * MiB)
         /\ kind = "expiration" => TTLSeconds[e] >= 1

\* a cache-expiration Prepare asked for ttl 0 (the inputs are 0 and 2) and
\* stored 1
C21_Witness ==
  \E e \in Execs :
    kind = "expiration" /\ phase[e] = "prepared" /\ TTLSeconds[e] = 1


\* the causes of a failed Start that lie with the target or its address: no
\* client, no answer to PING, the test key refused, CONFIG refused
TargetCauses == {"client", "ping", "testkey", "config"}

\* C22: an execution prepared with duration 0 (the clock starts at Prepare,
\* so its EndTime is 0) is started without an error of its own, and a
\* Status call after Start reports completed
C22_ZeroDuration ==
  \A e \in Execs :
    (StartReturned(e) /\ EndTime[e] = 0)
      => /\ startRet[e].err => startRet[e].cause \in TargetCauses
         /\ statusRet[e].called => statusRet[e].completed


\* C23: an execution of the maxmemory limit attack whose eviction policy was
\* requested as "keep" has sent no CONFIG SET for maxmemory-policy, neither in
\* Start nor in Stop
C23_KeepLeavesPolicy ==
  \A e \in Execs :
    (kind = "maxmemory" /\ NewPolicy[e] = "keep")
      => /\ "maxmemory-policy" \notin configSets[e]
         /\ \A n \in Callers : "maxmemory-policy" \notin stopRet[e][n].sets

\* a "keep" execution that set maxmemory in Start and whose Stop has returned
C23_Witness ==
  \E e \in Execs :
    /\ kind = "maxmemory"
    /\ NewPolicy[e] = "keep"
    /\ phase[e] = "running"
    /\ configSets[e] = {"maxmemory"}
    /\ \E n \in Callers : spc[e][n] = "returned" /\ ~stopRet[e][n].err


Opened(e) == {ConnId(e, i) : i \in 1..ConnectionCount[e]}

\* C28: once a Stop of a connection exhaustion execution has returned, the
\* connections its Stop calls closed and unregistered are exactly those its
\* own Start opened, whatever other executions are registered
C28_StopClosesOwn ==
  \A e \in Execs :
    (kind = "connexhaust" /\ StopReturned(e))
      => /\ stopClosed[e] = Opened(e)
         /\ ~activeConnections[e].present

\* C29: after a connection exhaustion Start has returned an error, the
\* registry holds no entry under the attack key of that call and no
\* keepAlive was launched
C29_FailedStartLeavesNothing ==
  \A e \in Execs :
    (kind = "connexhaust" /\ phase[e] = "startFailed" /\ NoStopCalled(e))
      => /\ ~activeConnections[e].present
         /\ kapc[e] = "none"


\* the worker loop of execution e has returned
WorkerExited(e) == wpc[e] = "done" \/ mfpc[e] = "done" \/ kapc[e] = "exited"

\* what execution e has created on the target and is still there: the keys
\* of the big key and memory fill attacks, the open connections of the
\* connection exhaustion attack
LeftOnTarget(e) ==
  CASE kind = "bigkey" -> KeysWithPrefix(stateOf[e], targetKeys)
    [] kind = "memfill" -> CreatedKeys[e] \cap targetKeys
    [] kind = "connexhaust" -> Opened(e) \cap openConns
    [] OTHER -> {}

\* C25: once the worker loop of an execution has returned, and no Stop call
\* has cleaned up for it, nothing the execution created is left on the target
\* (unless one of its operations against the target failed)
C25_CleanupBeforeExit ==
  \A e \in Execs :
    (WorkerExited(e) /\ ~StopReturned(e) /\ ~ops[e].failed)
      => LeftOnTarget(e) = {}


\* worker w of execution e is at the statement that sends its next
\* operation to the target
AboutToIssue(e, w) ==
  \/ w = 1 /\ wpc[e] = "set"
  \/ w = 1 /\ mfpc[e] = "set"
  \/ ppc[e][w] = "get"

\* C26: a worker whose last operation failed does not arrive at its next
\* operation against the target without having waited in between
C26_DelayAfterFailure ==
  \A e \in Execs : backoff[e] => ~AboutToIssue(e, 1)


\* a worker loop of the Start call e has been launched and has not returned
LoopRunning(e) == WorkerActive(e) \/ kapc[e] = "ticking"

\* C27: every key present in runningAttacks, cachePenetrationCancels or
\* activeConnections belongs to a Start call one of whose worker loops has
\* not returned yet
C27_RegisteredHasWorker ==
  \A k \in Execs :
    /\ runningAttacks[k] # NoEntry => LoopRunning(runningAttacks[k])
    /\ cachePenetrationCancels[k] # NoEntry
         => LoopRunning(cachePenetrationCancels[k])
    /\ activeConnections[k].present => LoopRunning(k)


\* a Status call of a check, made before the deadline with a valid URL,
\* found the target unreachable
UnreachableStatus(e) ==
  /\ CheckStatus(e)
  /\ urlValid[e]
  /\ ~statusRet[e].reach
  /\ ~statusRet[e].completed

C31_StopDeletesCreatedKeys ==
  \A e \in Execs, n \in Callers :
    (kind = "memfill" /\ spc[e][n] = "returned" /\ ~stopRet[e][n].err
       /\ stopRet[e][n].reach /\ mfpc[e] = "done")
      => CreatedKeys[e] \cap targetKeys = {}


\* ---------------------------------------------------------------------
\* The locks of the big key attack. runningAttacksMu guards the registry
\* runningAttacks, stats.mu guards the counters of one execution. Start,
\* Status and Stop are called concurrently by the controller; the worker
\* runBigKeyCycles runs beside them. One step is one lock operation or one
\* critical section.

\* the Stop calls among the threads
StopThreads == {"StopA", "StopB"}

\* the locks a Status call takes, in the order it takes them: were stats.mu
\* taken before runningAttacksMu
LockOrderStatusReversed == <<"mu", "runningAttacksMu">>

\* the locks a Status call takes, in the order it takes them
LockOrderStatus == <<"runningAttacksMu", "mu">>

\* the locks a thread takes, in the order it takes them; it releases them
\* in the reverse order
LockOrder(t) ==
  CASE t = "Start" -> <<"runningAttacksMu">>
    [] t = "Status" -> LockOrderStatus
    [] t \in StopThreads -> <<"runningAttacksMu", "mu">>
    [] t = "runBigKeyCycles" -> <<"mu">>

\* the registry entry of the execution the threads work on
LKEntry == runningAttacks[ExecutionId(stateOf[1])]


\* the controller calls Start once, Status any number of times and Stop
\* after Start has returned
LKCall(t) ==
  /\ kind = "bigkey"
  /\ t \in {"Start", "Status"} \cup StopThreads
  /\ lpc[t] = "idle"
  /\ t \in StopThreads => lpc["Start"] = "done"
  /\ lpc' = [lpc EXCEPT ![t] = "acquiring"]
  /\ ClearStatus
  /\ UNCHANGED <<commonVars, bkVars, notLK, mutex, held>>

\* Lock(): the thread takes the next of its locks once it is free. Status and
\* Stop look the execution up as soon as they hold runningAttacksMu and go
\* on to stats.mu only when it is registered; Stop closes the stop channel of
\* the entry it finds before it asks for stats.mu
LKAcquire(t) ==
  /\ kind = "bigkey"
  /\ lpc[t] = "acquiring"
  /\ LET l == LockOrder(t)[held[t] + 1]
         found == LKEntry # NoEntry
         looksUp == l = "runningAttacksMu" /\ t # "Start" IN
     /\ mutex[l] = "free"
     /\ mutex' = [mutex EXCEPT ![l] = t]
     /\ held' = [held EXCEPT ![t] = @ + 1]
     /\ lpc' = [lpc EXCEPT ![t] =
          IF looksUp /\ ~found THEN "releasing"
          ELSE IF held[t] + 1 = Len(LockOrder(t)) THEN "body"
          ELSE "acquiring"]
     /\ stats' = IF looksUp /\ found /\ t \in StopThreads
                 THEN [stats EXCEPT ![LKEntry].closed = TRUE,
                                    ![LKEntry].closes = @ + 1]
                 ELSE stats
  /\ ClearStatus
  /\ UNCHANGED <<commonVars, notLK, NumKeys, KeySize, runningAttacks, wpc, wi,
                 wCycle, wCreated, wClient>>

\* the critical section: Start registers fresh stats, Status and Stop read
\* the counters, Stop deletes the registry entry, the worker records the
\* outcome of its last operation
LKBody(t) ==
  /\ kind = "bigkey"
  /\ lpc[t] = "body"
  /\ lpc' = [lpc EXCEPT ![t] = "releasing"]
  /\ CASE t = "Start" ->
            /\ stats' = [stats EXCEPT ![1] = EmptyStats]
            /\ runningAttacks' =
                 [runningAttacks EXCEPT ![ExecutionId(stateOf[1])] = 1]
       [] t = "Status" -> UNCHANGED <<stats, runningAttacks>>
       [] t \in StopThreads ->
            /\ runningAttacks' =
                 Unregister(runningAttacks, ExecutionId(stateOf[1]))
            /\ UNCHANGED stats
       [] t = "runBigKeyCycles" ->
            /\ \E failed \in BOOLEAN :
                 stats' = [stats EXCEPT ![1].lastError = failed]
            /\ UNCHANGED runningAttacks
  /\ ClearStatus
  /\ UNCHANGED <<commonVars, notLK, NumKeys, KeySize, wpc, wi, wCycle,
                 wCreated, wClient, mutex, held>>

\* Unlock(): the thread gives back the lock it took last. With the last one
\* back the call returns: Start launches the worker after it, Status can be
\* called again, the worker goes back to its select
LKRelease(t) ==
  /\ kind = "bigkey"
  /\ lpc[t] = "releasing"
  /\ held[t] > 0
  /\ mutex' = [mutex EXCEPT ![LockOrder(t)[held[t]]] = "free"]
  /\ held' = [held EXCEPT ![t] = @ - 1]
  /\ lpc' = IF held[t] > 1 THEN lpc
            ELSE CASE t = "Start" ->
                        [lpc EXCEPT !["Start"] = "done",
                                    !["runBigKeyCycles"] = "select"]
                   [] t = "Status" -> [lpc EXCEPT ![t] = "idle"]
                   [] t \in StopThreads -> [lpc EXCEPT ![t] = "done"]
                   [] t = "runBigKeyCycles" -> [lpc EXCEPT ![t] = "select"]
  /\ ClearStatus
  /\ UNCHANGED <<commonVars, bkVars, notLK>>

\* the select of the worker: it returns once the stop channel is closed and
\* goes on to its next update of the counters otherwise
LKSelect ==
  /\ kind = "bigkey"
  /\ lpc["runBigKeyCycles"] = "select"
  /\ lpc' = [lpc EXCEPT !["runBigKeyCycles"] =
       IF stats[1].closed THEN "exited" ELSE "acquiring"]
  /\ ClearStatus
  /\ UNCHANGED <<commonVars, bkVars, notLK, mutex, held>>

InitLocks ==
  /\ kind = "bigkey"
  /\ active = {1}
  /\ InitState

NextLocks ==
  \/ \E t \in Threads : LKCall(t)
  \/ \E t \in Threads : LKAcquire(t)
  \/ \E t \in Threads : LKBody(t)
  \/ \E t \in Threads : LKRelease(t)
  \/ LKSelect

SpecLocks == InitLocks /\ [][NextLocks]_vars

\* sync.Mutex hands a lock to a goroutine that has waited for it (starvation
\* mode), and the Go scheduler runs every runnable goroutine
SpecLocksFair ==
  /\ SpecLocks
  /\ \A t \in Threads :
       /\ SF_vars(LKAcquire(t))
       /\ WF_vars(LKBody(t))
       /\ WF_vars(LKRelease(t))
  /\ WF_vars(LKSelect)

\* a thread waits for lock l
WaitsFor(t, l) ==
  lpc[t] = "acquiring" /\ LockOrder(t)[held[t] + 1] = l /\ mutex[l] # "free"

\* C32: in every interleaving of Start, Status and two Stop calls with the
\* worker, no thread asks for the registry lock while it holds a stats lock,
\* no two threads wait for each other, and a thread that holds a lock gives
\* it back eventually
C32_NoDeadlock ==
  /\ [](\A t \in Threads :
          (lpc[t] = "acquiring" /\ LockOrder(t)[held[t] + 1] = "runningAttacksMu")
            => mutex["mu"] # t)
  /\ [](\A t, u \in Threads, l, m \in Locks :
          ~(mutex[l] = t /\ WaitsFor(t, m) /\ mutex[m] = u /\ WaitsFor(u, l)))
  /\ \A t \in Threads, l \in Locks : (mutex[l] = t) ~> (mutex[l] # t)

\* a Stop holds both locks of a registered execution while the worker waits
\* for stats.mu and Status and the other Stop wait for the registry lock
C32_Witness ==
  /\ mutex["runningAttacksMu"] = "StopA"
  /\ mutex["mu"] = "StopA"
  /\ WaitsFor("runBigKeyCycles", "mu")
  /\ WaitsFor("Status", "runningAttacksMu")
  /\ WaitsFor("StopB", "runningAttacksMu")


\* C33: whichever way two concurrent Stop calls, Status calls and the worker
\* interleave, the stop channel of a big key execution is closed at most once
C33_ClosedAtMostOnce ==
  \A e \in Execs : stats[e].closes <= 1

\* both Stop calls have returned and the channel was closed
C33_Witness ==
  /\ lpc["StopA"] = "done"
  /\ lpc["StopB"] = "done"
  /\ stats[1].closes = 1


\* a Stop call of the execution has returned without an error
StoppedOK(e) ==
  \E n \in Callers : spc[e][n] = "returned" /\ ~stopRet[e][n].err
                       /\ stopRet[e][n].restoreErrors = {}

\* C34: when a second maxmemory limit execution is started while a first one
\* is in force and both have been stopped, in either order, the target's
\* maxmemory is the value it had before the first was started
C34_OverlapRestoresFirst ==
  \A e, f \in Execs :
    (kind = "maxmemory" /\ e \in startedDuring[f] /\ phase[f] = "running"
       /\ StoppedOK(e) /\ StoppedOK(f))
      => cfg["maxmemory"] = cfgBefore[e]["maxmemory"]

\* C35: a Start that failed at the policy change after it had changed
\* maxmemory leaves the target's maxmemory as it was before the Start
C35_FailedStartRollsBack ==
  \A e \in Execs :
    (kind = "maxmemory" /\ phase[e] = "startFailed"
       /\ "maxmemory-policy" \in configSets[e]
       /\ \A n \in Callers : spc[e][n] = "idle")
      => cfg["maxmemory"] = cfgBefore[e]["maxmemory"]


\* C36: a big key worker holds no open client outside a cycle (before the
\* cycle, in the pause between cycles, after it has returned by any path), and
\* a cache penetration worker holds none once it has returned
C36_ClientsClosed ==
  /\ \A e \in Execs :
       wpc[e] \in {"none", "top", "pause", "done"} => ~wClient[e]
  /\ \A e \in Execs, w \in Workers :
       ppc[e][w] \in {"none", "done"} => ~pClient[e][w]

\* a big key worker has returned on the stop signal after a cycle for which
\* it had opened a client and in which a SET failed
C36_Witness ==
  /\ kind = "bigkey"
  /\ wpc[1] = "done"
  /\ urlValid[1]
  /\ stats[1].lastError
  /\ wi[1] > 0
  /\ ~wClient[1]


\* C37: the memory fill worker never divides by zero when it computes its
\* write rate and its delay, whatever valueSize and fillRate were requested
C37_NoDivisionByZero ==
  \A e \in Execs : mfpc[e] # "panic"

\* C38: with a maxMemory above 0 the memory fill worker is not about to write
\* once the bytes it has written reach maxMemory MiB, and what it has written
\* stays below maxMemory MiB plus one value size
C38_StopsAtMaxMemory ==
  \A e \in Execs :
    (kind = "memfill" /\ MaxMemory[e] > 0)
      => /\ mfpc[e] = "set" => totalBytes[e] < MaxMemory[e] * MiB
         /\ Cardinality(CreatedKeys[e]) * ValueSize[e]
              < MaxMemory[e] * MiB + ValueSize[e]

\* the worker has left its loop before the end time because its last write
\* took the total over maxMemory MiB
C38_Witness ==
  /\ kind = "memfill"
  /\ MaxMemory[1] > 0
  /\ mfpc[1] = "done"
  /\ now < EndTime[1]
  /\ totalBytes[1] > MaxMemory[1] * MiB
  /\ Cardinality(CreatedKeys[1]) * ValueSize[1] = totalBytes[1]


\* C39: with maxKeys above 0, a key delete Start has deleted at most maxKeys
\* keys and a cache expiration Start has set a TTL on at most maxKeys keys
C39_AtMostMaxKeys ==
  \A e \in Execs :
    (phase[e] = "running" /\ MaxKeys[e] > 0 /\ NoStopCalled(e))
      => /\ kind = "keydelete" =>
              /\ Cardinality(DeletedKeys[e]) <= MaxKeys[e]
              /\ Cardinality({k \in DbKeys : dbBefore[e][k] # NoValue
                                               /\ db[k] = NoValue}) <= MaxKeys[e]
         /\ kind = "expiration" =>
              /\ Cardinality(AffectedKeys[e]) <= MaxKeys[e]
              /\ Cardinality({k \in DbKeys : keyTTL[k] # -1}) <= MaxKeys[e]

\* a cache expiration Start with maxKeys 1 found two string keys that match
\* and set the TTL on one of them
C39_Witness ==
  /\ kind = "expiration"
  /\ phase[1] = "running"
  /\ MaxKeys[1] = 1
  /\ \A k \in DbKeys : db[k].type = "string" /\ Matches(Pattern[1], k)
  /\ Cardinality({k \in DbKeys : keyTTL[k] # -1}) = 1

====
